---- MODULE Spec2Model ----
(***************************************************************************)
(* A state-machine model of CGAL::Polyhedron_shortest_path: the cone tree, *)
(* the expansion priority queue with lazy cancellation, the per-halfedge   *)
(* occupier table and the per-vertex closest table.                        *)
(*                                                                         *)
(* The geometry kernel is an external collaborator.  Its answers (the      *)
(* length |I - T| from a source image to a target vertex, the distance     *)
(* estimate of a clipped window, has_left_side / has_right_side, the       *)
(* comparison of two intersections along an entry segment, the dominance   *)
(* comparisons of the distance filter, inside_window) are inputs, drawn    *)
(* from small sets at the place where the code asks for them.  Distances   *)
(* are naturals.                                                           *)
(***************************************************************************)
EXTENDS Integers, Sequences, FiniteSets, TLC

\* ------------------------------------------------------------------ bounds

\* |I - T| of a new node is drawn from 1..MaxDelta.
MaxDelta == 2
\* The offset of a window's distance estimate above distance_from_source_to_root
\* is drawn from 0..MaxEst.
MaxEst == 1
\* Nodes created in one run on the three-face mesh (runs on the two-face mesh
\* are complete).
MaxNodes == 6

\* The calls of compute_shortest_paths in one run on the fixed geometry.
MaxCalls == 2

\* --------------------------------------------------------------- constants

\* A null Cone_tree_node* / Cone_expansion_event*.
NULL == 0
\* GraphTraits::null_face().
NullFace == 0
\* The value "one" of a barycentric triple: coordinates are counted in thirds.
BaryOne == 3

\* -------------------------------------------------------------------- mesh

VARIABLES
  numFaces,       \* num_faces(m_polyhedron): 2 (a flat square) or 3 (an open tetrahedron)
  saddle,         \* the kernel's is_saddle_vertex, per vertex
  replay,         \* the kernel's answers still to come in a run on a recorded geometry
  calls,          \* the calls of compute_shortest_paths: how many, and what the last one left
  pc,             \* "idle" | "seeds" | "loop" | "done" | "aborted"
  seeds,          \* the source locations not yet expanded
  work,           \* children the running handler still has to create and process
  nodes,          \* every Cone_tree_node allocated (nodes are never freed)
  events,         \* every Cone_expansion_event allocated
  queue,          \* m_expansionPriqueue: the events in the queue
  occ,            \* m_vertexOccupiers, per halfedge
  closest,        \* m_closestToVertices, per vertex
  isPseudo,       \* m_vertexIsPseudoSource, per vertex
  roots,          \* m_rootNodes
  faceLocations,  \* m_faceLocations
  faceOccupiers,  \* m_faceOccupiers, per face
  lastPopped,     \* the distance estimate of the last event popped (-1: none)
  lastPush,       \* the events pushed by the last step
  query           \* the last query and what it returned

vars == <<numFaces, saddle, replay, calls, pc, seeds, work, nodes, events, queue, occ, closest,
          isPseudo, roots, faceLocations, faceOccupiers, lastPopped, lastPush, query>>

\* The corners of the faces, in halfedge-cycle order starting at halfedge(face).
\* Faces 1..2 are the flat square 0-1-2-3 split along 0-2; faces 1..3 are a
\* tetrahedron with apex 0 and the face 1-2-3 missing.
FaceCorners == << <<0, 1, 2>>, <<0, 2, 3>>, <<0, 3, 1>> >>

\* The meshes: the first two faces, or all three.
MeshSizes == {Len(FaceCorners) - 1, Len(FaceCorners)}

Corner == DOMAIN FaceCorners[1]

\* next index in a face's cycle
Succ3(i) == (i % Len(FaceCorners[1])) + 1

\* The interior halfedges <<source, target>> of face f, as the sequence
\* halfedge(f), next, next-next.
FaceHalfedges(f) == [i \in Corner |-> <<FaceCorners[f][i], FaceCorners[f][Succ3(i)]>>]

Opposite(h) == <<h[2], h[1]>>

Source(h) == h[1]

Target(h) == h[2]

\* The mesh of nf faces, tabulated: its vertices, its halfedges, and CGAL's
\* face(h), next(h), prev(h), halfedge(v) on it.
MeshTable ==
  [nf \in MeshSizes |->
     LET interior == {FaceHalfedges(f)[i] : f \in 1..nf, i \in Corner}
         all      == interior \cup {Opposite(h) : h \in interior}
         faceOf   == [h \in all |->
                        IF h \in interior
                        THEN CHOOSE f \in 1..nf : \E i \in Corner : FaceHalfedges(f)[i] = h
                        ELSE NullFace]
         next     == [h \in all |->
                        IF h \in interior
                        THEN LET i == CHOOSE j \in Corner : FaceHalfedges(faceOf[h])[j] = h
                             IN  FaceHalfedges(faceOf[h])[Succ3(i)]
                        ELSE CHOOSE g \in all \ interior : Source(g) = Target(h)]
         verts    == {Source(h) : h \in all}
     IN  [vertices  |-> verts,
          halfedges |-> all,
          face      |-> faceOf,
          next      |-> next,
          prev      |-> [h \in all |-> CHOOSE g \in all : next[g] = h],
          halfedge  |-> [v \in verts |->
                           CHOOSE h \in all : /\ Target(h) = v
                                              /\ \A g \in all : Target(g) = v => Source(h) <= Source(g)]]]

Faces == 1..numFaces

Vertices == MeshTable[numFaces].vertices

Halfedges == MeshTable[numFaces].halfedges

\* CGAL::face(h): the null face for a border halfedge.
FaceOf(h) == MeshTable[numFaces].face[h]

\* CGAL::next(h): the next halfedge of the face, or of the hole for a border halfedge.
NextHalfedge(h) == MeshTable[numFaces].next[h]

\* CGAL::prev(h)
Prev(h) == MeshTable[numFaces].prev[h]

\* CGAL::halfedge(v): a halfedge whose target is v.
HalfedgeOfVertex(v) == MeshTable[numFaces].halfedge[v]

\* CGAL::halfedge(f)
HalfedgeOfFace(f) == FaceHalfedges(f)[1]

\* The halfedges into v in the order the walk currentEdge = opposite(next(currentEdge))
\* visits them, from start until it is back at start.
RECURSIVE RingFrom(_, _, _, _)
RingFrom(nf, start, h, fuel) ==
  LET n == Opposite(MeshTable[nf].next[h])
  IN  IF n = start \/ fuel = 0 THEN <<h>> ELSE <<h>> \o RingFrom(nf, start, n, fuel - 1)

RingTable ==
  [nf \in MeshSizes |->
     [v \in MeshTable[nf].vertices |->
        RingFrom(nf, MeshTable[nf].halfedge[v], MeshTable[nf].halfedge[v],
                 Cardinality(MeshTable[nf].halfedges))]]

Ring(v) == RingTable[numFaces][v]

IsBoundaryAtFirstOnly(v) ==
  FaceOf(Ring(v)[1]) = NullFace \/ FaceOf(Opposite(Ring(v)[1])) = NullFace

\* is_boundary_vertex(v)
IsBoundaryVertex(v) ==
  \E i \in DOMAIN Ring(v) :
     FaceOf(Ring(v)[i]) = NullFace \/ FaceOf(Opposite(Ring(v)[i])) = NullFace

\* --------------------------------------------------- barycentric classifier

\* classify_barycentric_coordinate: the type and the associated index (from 0).
\* One zero coordinate: EDGE with the index of the zero; two zeros: VERTEX with
\* the index of the nonzero; a negative coordinate or a sum other than one: INVALID.
ClassifyBarycentric(b) ==
  LET zeros == {i \in DOMAIN b : b[i] = 0}
  IN  IF (\E i \in DOMAIN b : b[i] < 0) \/ b[1] + b[2] + b[3] # BaryOne
      THEN [type |-> "INVALID", index |-> 0]
      ELSE IF Cardinality(zeros) = 1
      THEN [type |-> "EDGE", index |-> (CHOOSE i \in zeros : TRUE) - 1]
      ELSE IF Cardinality(zeros) = 2
      THEN [type |-> "VERTEX", index |-> (CHOOSE i \in DOMAIN b : b[i] # 0) - 1]
      ELSE [type |-> "INTERNAL", index |-> 0]

\* --------------------------------------------------------- cone tree nodes

NoEdge == <<NULL, NULL>>

NoPair == [node |-> NULL, dist |-> 0]

SourceKinds == {"FACE_SOURCE", "EDGE_SOURCE", "VERTEX_SOURCE"}

\* Cone_tree_node::is_source_node
IsSourceNode(n) == n.kind \in SourceKinds

\* Cone_tree_node::is_vertex_node
IsVertexNode(n) == n.kind = "VERTEX_SOURCE"

\* Cone_tree_node::is_root_node
IsRootNode(n) == n.kind = "ROOT"

\* Cone_tree_node::target_vertex
TargetVertex(n) == Target(NextHalfedge(n.entry))

\* Cone_tree_node::left_child_edge
LeftChildEdge(n) == Opposite(NextHalfedge(n.entry))

\* Cone_tree_node::right_child_edge
RightChildEdge(n) == Opposite(NextHalfedge(NextHalfedge(n.entry)))

\* Cone_tree_node::is_null_face
IsNullFace(n) == FaceOf(n.entry) = NullFace

\* A freshly constructed node: no children, nothing pending.
NewNode(kind, entry, parent, level, treeId, dSrc, dTgt, hasLeft, hasRight) ==
  [kind |-> kind, entry |-> entry, parent |-> parent, level |-> level,
   treeId |-> treeId, dSrc |-> dSrc, dTgt |-> dTgt,
   hasLeft |-> hasLeft, hasRight |-> hasRight,
   left |-> NULL, right |-> NULL, middle |-> <<>>,
   pendL |-> NULL, pendR |-> NULL, pendM |-> NULL]

\* The children of a node.
ChildrenOf(ns, n) ==
  ({ns[n].left, ns[n].right} \ {NULL}) \cup {ns[n].middle[i] : i \in DOMAIN ns[n].middle}

\* The nodes attached to the tree: reachable from a root by child links.
RECURSIVE Descendants(_, _, _)
Descendants(ns, frontier, fuel) ==
  LET more == frontier \cup UNION {ChildrenOf(ns, n) : n \in frontier}
  IN  IF more = frontier \/ fuel = 0 THEN frontier ELSE Descendants(ns, more, fuel - 1)

Attached(ns, rs) == Descendants(ns, {rs[i] : i \in DOMAIN rs}, Len(ns))

\* ------------------------------------------------------------ engine state

\* The part of the engine a handler works on.
Engine == [nodes |-> nodes, events |-> events, queue |-> queue,
           occ |-> occ, closest |-> closest, pushed |-> {}]

\* event->m_cancelled = true; slot = NULL, when the slot holds an event.
CancelSlotDropFlag(s, n, slot) ==
  IF s.nodes[n][slot] = NULL THEN s
  ELSE [s EXCEPT !.nodes[n][slot] = NULL]

CancelSlotKeepSlot(s, n, slot) ==
  IF s.nodes[n][slot] = NULL THEN s
  ELSE [s EXCEPT !.events[s.nodes[n][slot]].cancelled = TRUE]

CancelSlot(s, n, slot) ==
  IF s.nodes[n][slot] = NULL THEN s
  ELSE [s EXCEPT !.events[s.nodes[n][slot]].cancelled = TRUE,
                 !.nodes[n][slot] = NULL]

RECURSIVE DeleteNode(_, _)
RECURSIVE DeleteMiddles(_, _)

KeepOccupier(s, n) == s

ReleaseEdgeOnly(s, n) ==
  IF s.occ[s.nodes[n].entry].node # n THEN s
  ELSE [s EXCEPT !.occ[s.nodes[n].entry].node = NULL]

\* The occupier check at the end of delete_node: only the node pointers of the
\* two pairs are reset, the distances stay.
ReleaseOccupier(s, n) ==
  LET e  == s.nodes[n].entry
      tv == TargetVertex(s.nodes[n])
  IN  IF s.occ[e].node # n THEN s
      ELSE IF s.closest[tv].node = n
      THEN [s EXCEPT !.occ[e].node = NULL, !.closest[tv].node = NULL]
      ELSE [s EXCEPT !.occ[e].node = NULL]

\* if (node->get_left_child() != NULL) delete_node(node->remove_left_child());
\* and the same on the right (side is "left" or "right").
DeleteChild(s, n, side) ==
  IF s.nodes[n][side] = NULL THEN s
  ELSE DeleteNode([s EXCEPT !.nodes[n][side] = NULL], s.nodes[n][side])

\* while (node->has_middle_children()) delete_node(node->pop_middle_child());
DeleteMiddles(s, n) ==
  LET mid == s.nodes[n].middle
  IN  IF mid = <<>> THEN s
      ELSE DeleteMiddles(
             DeleteNode([s EXCEPT !.nodes[n].middle = SubSeq(mid, 1, Len(mid) - 1)],
                        mid[Len(mid)]),
             n)

\* delete_node
DeleteNode(s, n) ==
  IF n = NULL THEN s
  ELSE ReleaseOccupier(
         DeleteMiddles(
           CancelSlot(
             DeleteChild(
               CancelSlot(
                 DeleteChild(CancelSlot(s, n, "pendL"), n, "left"),
                 n, "pendR"),
               n, "right"),
             n, "pendM"),
           n),
         n)

\* Allocates an event for parent n and enqueues it.
PushEvent(s, n, kind, est, slot) ==
  LET id == Len(s.events) + 1
  IN  [s EXCEPT !.events = Append(@, [parent |-> n, est |-> est, kind |-> kind,
                                      cancelled |-> FALSE, dispatched |-> FALSE,
                                      popped |-> 0]),
                !.nodes[n][slot] = id,
                !.queue = @ \cup {id},
                !.pushed = @ \cup {id}]

PushLeftUnguarded(s, n, est) == PushEvent(s, n, "LEFT_CHILD", est, "pendL")

\* push_left_child
PushLeftChild(s, n, est) ==
  IF FaceOf(LeftChildEdge(s.nodes[n])) # NullFace
  THEN PushEvent(s, n, "LEFT_CHILD", est, "pendL")
  ELSE s

\* push_right_child
PushRightChild(s, n, est) ==
  IF FaceOf(RightChildEdge(s.nodes[n])) # NullFace
  THEN PushEvent(s, n, "RIGHT_CHILD", est, "pendR")
  ELSE s

\* push_middle_child
PushMiddleChild(s, n) ==
  PushEvent(s, n, "PSEUDO_SOURCE", s.nodes[n].dTgt, "pendM")

\* ------------------------------------------------------------ process_node

BecomesOccupierOnTie(cur, d) == cur.node = NULL \/ cur.dist >= d

\* The arbitration test of process_node: no occupier, or a strictly farther one.
BecomesOccupier(cur, d) == cur.node = NULL \/ cur.dist > d

BecomesClosestAlways(cc, d) == TRUE

\* The test for the closest node of the target vertex.
BecomesClosest(cc, d) == cc.node = NULL \/ cc.dist > d

\* isLeftOfCurrent; cmpSmaller is the kernel's
\* compare_relative_intersection_along_segment_2(...) == SMALLER.
IsLeftOfCurrent(s, node, cur, cmpSmaller) ==
  IF cur.node = NULL THEN FALSE
  ELSE IF IsVertexNode(node) THEN FALSE
  ELSE IF IsVertexNode(s.nodes[cur.node]) THEN TRUE
  ELSE cmpSmaller

EvictBothSides(s, loser, isLeft) ==
  IF loser = NULL THEN s
  ELSE DeleteChild(CancelSlot(DeleteChild(CancelSlot(s, loser, "pendL"), loser, "left"),
                              loser, "pendR"),
                   loser, "right")

\* The eviction of the displaced occupier's subtree on one side: the child is
\* deleted, or else the pending event of that side is cancelled.
EvictLoser(s, loser, isLeft) ==
  LET side == IF isLeft THEN "left" ELSE "right"
      pend == IF isLeft THEN "pendL" ELSE "pendR"
  IN  IF loser = NULL THEN s
      ELSE IF s.nodes[loser][side] # NULL
      THEN DeleteChild(s, loser, side)
      ELSE CancelSlot(s, loser, pend)

KeepFan(s, old) == s

\* The eviction of the previous closest node's pseudo-source fan.
EvictFan(s, old) ==
  IF old = NULL THEN s ELSE DeleteMiddles(CancelSlot(s, old, "pendM"), old)

\* What process_node finds on the entry edge of node n: whether the node
\* contains its target vertex, the current occupier, isLeftOfCurrent, and
\* whether the node takes the edge.
Arbitration(s, n, cmpSmaller) ==
  LET node     == s.nodes[n]
      cur      == s.occ[node.entry]
      contains == IsSourceNode(node) \/ (node.hasLeft /\ node.hasRight)
  IN  [contains |-> contains,
       cur      |-> cur,
       isLeft   |-> contains /\ IsLeftOfCurrent(s, node, cur, cmpSmaller),
       wins     |-> contains /\ BecomesOccupier(cur, node.dTgt)]

\* The winner is recorded as the occupier and the loser's side is evicted.
TakeEdge(s, n, a) ==
  IF a.wins
  THEN EvictLoser([s EXCEPT !.occ[s.nodes[n].entry] = [node |-> n, dist |-> s.nodes[n].dTgt]],
                  a.cur.node, a.isLeft)
  ELSE s

\* Whether the winner is also the closest node of its target vertex.
IsNowClosest(s, n, a) ==
  a.wins /\ BecomesClosest(s.closest[TargetVertex(s.nodes[n])], s.nodes[n].dTgt)

\* The winner is recorded as the closest node; at a pseudo-source vertex the
\* fan of the previous closest node is evicted first.
TakeVertex(s, n, nowClosest) ==
  LET tv == TargetVertex(s.nodes[n])
  IN  IF ~nowClosest THEN s
      ELSE [(IF isPseudo[tv] THEN EvictFan(s, s.closest[tv].node) ELSE s)
              EXCEPT !.closest[tv] = [node |-> n, dist |-> s.nodes[n].dTgt]]

PropagateLeftAlways(s, n, go, est) == PushLeftChild(s, n, est)

PropagateLeft(s, n, go, est) == IF go THEN PushLeftChild(s, n, est) ELSE s

PropagateRightAlways(s, n, go, est) == PushRightChild(s, n, est)

PropagateRight(s, n, go, est) == IF go THEN PushRightChild(s, n, est) ELSE s

PropagateMiddle(s, n, go) == IF go THEN PushMiddleChild(s, n) ELSE s

LevelAlwaysAllows(node) == TRUE

\* if (node->level() < num_faces(m_polyhedron))
LevelAllowsPush(node) == node.level < numFaces

\* The end of process_node: the three propagate flags and the pushes under the
\* level check.
PushChildren(s, n, a, nowClosest, estL, estR) ==
  LET node == s.nodes[n]
      propagateLeft ==
        IF ~a.contains THEN node.hasLeft
        ELSE IF a.wins THEN ~(node.kind # "INTERVAL" /\ IsNullFace(node))
        ELSE a.isLeft
      propagateRight ==
        IF ~a.contains THEN node.hasRight
        ELSE IF a.wins THEN node.kind = "INTERVAL"
        ELSE ~a.isLeft /\ ~IsSourceNode(node)
      propagateMiddle == nowClosest /\ isPseudo[TargetVertex(node)]
      levelOk == LevelAllowsPush(node)
  IN  PropagateMiddle(
        PropagateRight(
          PropagateLeft(s, n, levelOk /\ propagateLeft, estL),
          n, levelOk /\ propagateRight /\ ~IsSourceNode(node), estR),
        n, levelOk /\ propagateMiddle)

\* The steps of process_node after the edge is settled.
SettleVertex(s, n, a, nowClosest, estL, estR) ==
  PushChildren(TakeVertex(s, n, nowClosest), n, a, nowClosest, estL, estR)

SettleEdge(s, n, a, estL, estR) ==
  SettleVertex(s, n, a, IsNowClosest(s, n, a), estL, estR)

\* process_node(n).  cmpSmaller is the kernel's comparison of the two rays;
\* estL and estR are the distance estimates of the clipped left and right windows.
ProcessNode(s, n, cmpSmaller, estL, estR) ==
  SettleEdge(TakeEdge(s, n, Arbitration(s, n, cmpSmaller)),
             n, Arbitration(s, n, cmpSmaller), estL, estR)

\* set_left_child / set_right_child / push_middle_child of Cone_tree_node.
AttachChild(s, parent, slot, child) ==
  IF slot = "middle"
  THEN [s EXCEPT !.nodes[parent].middle = Append(@, child)]
  ELSE [s EXCEPT !.nodes[parent][slot] = child]

\* The result of a query: what was asked, whether a node was found, how the
\* call ended ("value": a number was returned; "visited": the visitor calls
\* returned; "crash" / "garbage": a null Cone_tree_node* was dereferenced),
\* the number returned and the visitor events delivered.
QueryResult(op, vertex, face, found, outcome, value, emitted) ==
  [op |-> op, vertex |-> vertex, face |-> face, found |-> found,
   outcome |-> outcome, value |-> value, emitted |-> emitted]

\* ------------------------------------------------------------------ inputs

\* The source locations tried, as barycentric coordinates in units of 1/BaryOne:
\* inside the face, on an edge, at a corner, with a negative coordinate, and
\* with a sum other than one.
InternalBary == <<1, 1, 1>>

EdgeBary == <<0, 1, 2>>

RimEdgeBary == <<1, 0, 2>>

ApexBary == <<3, 0, 0>>

CornerBary == <<0, 3, 0>>

InvalidBarys == {<<-1, 2, 2>>, <<1, 1, 0>>}

\* The lists of source locations a run may be given, all on face 1: on the
\* square, none, a corner, an invalid one, or a corner and then an invalid
\* one; on the tetrahedron, the apex, a point of an interior edge or a point
\* of a rim edge when the apex is not a saddle, a face point or a rim corner
\* when it is.  The recorded and the fixed geometry have their source at the apex.
SeedLists ==
  LET on(b) == <<[face |-> 1, bary |-> b]>>
  IN  IF replay.on \/ calls.fixed THEN {on(ApexBary)}
      ELSE IF numFaces < Len(FaceCorners)
      THEN {<<>>, on(CornerBary)} \cup {on(b) : b \in InvalidBarys}
           \cup {on(CornerBary) \o on(b) : b \in InvalidBarys}
      ELSE IF saddle[0] THEN {on(InternalBary), on(CornerBary)}
                        ELSE {on(ApexBary), on(EdgeBary), on(RimEdgeBary)}

SideChoices(kind) ==
  IF kind = "INTERVAL"
  THEN {[l |-> TRUE, r |-> TRUE], [l |-> TRUE, r |-> FALSE], [l |-> FALSE, r |-> TRUE]}
  ELSE {[l |-> TRUE, r |-> TRUE]}

\* The offsets of the right window's estimate: only an interval node has a
\* right window.
RightEstimates(kind) == IF kind = "INTERVAL" THEN 0..MaxEst ELSE {0}

\* What the kernel answers when a node is created and processed: the distance
\* from the source image to the target vertex (dt), whether the window has a
\* part on each side of the ray to the target vertex (l, r), the comparison of
\* the two rays (cmp), and the distances from the source image to the clipped
\* left and right windows (eL, eR).
Answer(dt, l, r, cmp, eL, eR) ==
  [dt |-> dt, l |-> l, r |-> r, cmp |-> cmp, eL |-> eL, eR |-> eR]

FreeAnswers(kind) ==
  {Answer(dt, sd.l, sd.r, cmp, eL, eR) :
     dt \in 1..MaxDelta, sd \in SideChoices(kind), cmp \in BOOLEAN,
     eL \in 0..MaxEst, eR \in RightEstimates(kind)}

\* A geometry of the tetrahedron with the source at the apex, recorded as the
\* kernel's answers for the nodes in the order of their creation.  Every window
\* contains its target vertex; w(dt, e) is a node at distance dt from its
\* source image whose windows are at distance e.
RecordedGeometry ==
  LET w(dt, e) == Answer(dt, TRUE, TRUE, TRUE, e, e)
  IN  << w(2, 1), w(1, 1), w(2, 0), w(1, 1), w(1, 1),
         w(1, 1), w(1, 1), w(1, 1), w(1, 1), w(2, 1) >>

\* A run either draws the kernel's answers freely or replays the recorded
\* geometry.
NoReplay == [on |-> FALSE, answers |-> <<>>]

Replays == {NoReplay, [on |-> TRUE, answers |-> RecordedGeometry]}

\* A geometry of the tetrahedron with the source at the apex, given as the
\* kernel's answers by the node's kind, entry edge and level: the answers of
\* two runs on it do not depend on the order in which the nodes are created.
FixedGeometry(kind, entry, level) ==
  LET w(dt, e) == Answer(dt, TRUE, TRUE, TRUE, e, e)
  IN  IF level = 1 THEN (IF entry = <<3, 0>> THEN w(1, 1)
                         ELSE IF entry = <<2, 0>> THEN w(2, 0) ELSE w(2, 1))
      ELSE IF kind = "VERTEX_SOURCE" /\ entry = <<2, 1>> THEN w(2, 1)
      ELSE w(1, 1)

\* The result a call leaves: the distance of every vertex, and per face the
\* cones a location query on the face chooses from.
NoResult == <<>>

ResultOf(ns, cl, lists) ==
  [dist  |-> [v \in Vertices |-> cl[v].dist],
   cones |-> [f \in Faces |-> {<<ns[lists[f][i]].kind, ns[lists[f][i]].entry, ns[lists[f][i]].dSrc>> :
                                 i \in DOMAIN lists[f]}]]

\* How std::priority_queue orders the events its comparator holds equal is
\* left open ("any"); it is a function of the order of the pushes and pops,
\* and on the fixed geometry every call follows one rule over the order of the
\* pushes: the earliest push first, or the latest push first.
TieRules == {"first", "last"}

\* The calls of a run: on the fixed geometry compute_shortest_paths may be
\* called again after it returned.
NoCalls == [fixed |-> FALSE, tie |-> "any", count |-> 0, previous |-> NoResult]

CallModes == {NoCalls} \cup {[NoCalls EXCEPT !.fixed = TRUE, !.tie = t] : t \in TieRules}

KernelAnswers(kind, entry, level) ==
  IF replay.on THEN {Head(replay.answers)}
  ELSE IF calls.fixed THEN {FixedGeometry(kind, entry, level)}
  ELSE FreeAnswers(kind)

\* The answers of the kernel to the comparisons of window_distance_filter: on
\* the fixed geometry no window is farther than the vertices' distances.
FilterAnswers == IF calls.fixed THEN {FALSE} ELSE BOOLEAN

\* ----------------------------------------------------------------- actions

Init ==
  /\ numFaces \in MeshSizes
  /\ saddle \in {[v \in Vertices |-> v = 0 /\ b] : b \in IF numFaces = Len(FaceCorners) THEN BOOLEAN ELSE {FALSE}}
  /\ replay \in IF numFaces = Len(FaceCorners) /\ ~saddle[0] THEN Replays ELSE {NoReplay}
  /\ calls \in IF numFaces = Len(FaceCorners) /\ ~saddle[0] /\ ~replay.on THEN CallModes ELSE {NoCalls}
  /\ pc = "idle"
  /\ seeds = <<>>
  /\ work = <<>>
  /\ nodes = <<>>
  /\ events = <<>>
  /\ queue = {}
  /\ occ = <<>>
  /\ closest = <<>>
  /\ isPseudo = <<>>
  /\ roots = <<>>
  /\ faceLocations = <<>>
  /\ faceOccupiers = <<>>
  /\ lastPopped = -1
  /\ lastPush = {}
  /\ query = QueryResult("none", NULL, NullFace, FALSE, "none", 0, <<>>)

\* Writes the engine record back.
Commit(s) ==
  /\ nodes' = s.nodes
  /\ events' = s.events
  /\ queue' = s.queue
  /\ occ' = s.occ
  /\ closest' = s.closest
  /\ lastPush' = s.pushed

\* compute_shortest_paths up to its loop over the sources:
\* reset_containers, set_vertex_types and the two resizes.  set_vertex_types
\* clears m_vertexOccupiers and then writes its elements by index: the writes
\* land in the storage the vector keeps and the resize that follows sets every
\* pair to (NULL, 0), or a checked operator[] stops the program.
StaleOccupiers(old) == IF old = <<>> THEN [h \in Halfedges |-> NoPair] ELSE old

\* m_vertexOccupiers after set_vertex_types and the resize.
FreshOccupiers(old) == [h \in Halfedges |-> NoPair]

ComputeShortestPaths ==
  /\ \/ pc = "idle"
     \/ pc = "done" /\ calls.fixed /\ calls.count < MaxCalls
  /\ calls' = [calls EXCEPT !.count = @ + 1,
                            !.previous = IF pc = "done" THEN ResultOf(nodes, closest, faceOccupiers)
                                         ELSE NoResult]
  /\ \E sl \in SeedLists : seeds' = sl
  /\ pc' \in {"seeds", "aborted"}
  /\ closest' = [v \in Vertices |-> NoPair]
  /\ occ' = FreshOccupiers(occ)
  /\ isPseudo' = [v \in Vertices |-> saddle[v] \/ IsBoundaryVertex(v)]
  /\ queue' = {}
  /\ roots' = <<>>
  /\ faceLocations' = <<>>
  /\ lastPush' = {}
  /\ lastPopped' = -1
  /\ query' = QueryResult("none", NULL, NullFace, FALSE, "none", 0, <<>>)
  /\ UNCHANGED <<numFaces, saddle, replay, work, nodes, events, faceOccupiers>>

\* The i-th halfedge of the face, counted from halfedge(face).
WalkFace(f, i) == FaceHalfedges(f)[i + 1]

\* A child still to be created: its parent, the parent's slot, its entry edge,
\* its kind and its distance_from_source_to_root.
WorkItem(parent, slot, entry, kind, dSrc) ==
  [parent |-> parent, slot |-> slot, entry |-> entry, kind |-> kind, dSrc |-> dSrc]

FanWorkOnFaces(p, v, dSrc) ==
  LET ring == SelectSeq(Ring(v), LAMBDA h : FaceOf(h) # NullFace)
  IN  [i \in DOMAIN ring |-> WorkItem(p, "middle", ring[i], "VERTEX_SOURCE", dSrc)]

\* The children expand_pseudo_source creates for parent p, in ring order.
FanWork(p, v, dSrc) ==
  [i \in DOMAIN Ring(v) |-> WorkItem(p, "middle", Ring(v)[i], "VERTEX_SOURCE", dSrc)]

\* The switch of expand_root: the branch taken for a classification.
ExpandRootNoDefault(type) == IF type \in {"EDGE", "VERTEX"} THEN type ELSE "INTERNAL"

ExpandRootVertexAsFace(type) ==
  IF type = "EDGE" THEN "EDGE" ELSE IF type \in {"INTERNAL", "VERTEX"} THEN "INTERNAL" ELSE "DEFAULT"

ExpandRootBranch(type) ==
  IF type \in {"INTERNAL", "EDGE", "VERTEX"} THEN type ELSE "DEFAULT"

\* The children of a root, by the branch of expand_root: expand_face_root,
\* expand_edge_root, expand_vertex_root.
RootWork(root, rec, f, branch, index) ==
  IF branch = "INTERNAL"
  THEN [i \in DOMAIN FaceHalfedges(f) |->
          WorkItem(root, "middle", FaceHalfedges(f)[i], "FACE_SOURCE", 0)]
  ELSE IF branch = "EDGE"
  THEN LET h == WalkFace(f, index)
       IN  << WorkItem(root, "middle", h, "EDGE_SOURCE", 0),
              WorkItem(root, "middle", h, "EDGE_SOURCE", 0),
              WorkItem(root, "middle", Opposite(h), "EDGE_SOURCE", 0),
              WorkItem(root, "middle", Opposite(h), "EDGE_SOURCE", 0) >>
  ELSE FanWork(root, TargetVertex(rec), rec.dTgt)

\* The entry edge recorded in a root: prev(halfedge(vertex)) for a vertex root.
RootEntry(f, branch, index) ==
  IF branch = "VERTEX" THEN Prev(HalfedgeOfVertex(Source(WalkFace(f, index)))) ELSE NoEdge

\* One turn of the loop over the sources: m_faceLocations.push_back, expand_root.
\* A location the switch sends to its default branch meets assert(false): the
\* build with assertions stops, the build without them goes on to the next source.
ExpandRoot ==
  /\ pc = "seeds" /\ work = <<>> /\ seeds # <<>>
  /\ LET sd     == Head(seeds)
         c      == ClassifyBarycentric(sd.bary)
         branch == ExpandRootBranch(c.type)
         id     == Len(nodes) + 1
         root   == NewNode("ROOT", RootEntry(sd.face, branch, c.index), NULL, 0,
                           Len(roots), 0, 0, FALSE, FALSE)
     IN  /\ faceLocations' = Append(faceLocations, sd)
         /\ seeds' = Tail(seeds)
         /\ IF branch = "DEFAULT"
            THEN /\ pc' \in {"seeds", "aborted"}
                 /\ UNCHANGED <<nodes, roots, closest, work>>
            ELSE /\ pc' = pc
                 /\ nodes' = Append(nodes, root)
                 /\ roots' = Append(roots, id)
                 /\ work' = RootWork(id, root, sd.face, branch, c.index)
                 /\ closest' = IF branch = "VERTEX"
                               THEN [closest EXCEPT ![Source(WalkFace(sd.face, c.index))] =
                                       [node |-> id, dist |-> 0]]
                               ELSE closest
  /\ lastPush' = {}
  /\ UNCHANGED <<numFaces, saddle, replay, calls, events, queue, occ, isPseudo, faceOccupiers, lastPopped, query>>

\* The cap on the nodes of one run on the tetrahedron: at the cap no further
\* node is created and no further event is popped.  A run on the square ends
\* or on the fixed geometry ends by the level limit; a run on the recorded
\* geometry ends with its answers.
NodeCapOk ==
  IF replay.on THEN replay.answers # <<>>
  ELSE IF calls.fixed THEN TRUE
  ELSE numFaces < Len(FaceCorners) \/ Len(nodes) < MaxNodes

\* The next child of the running handler: new Cone_tree_node, attach to the
\* parent, process_node(child).
ProcessChild ==
  /\ pc \in {"seeds", "loop"} /\ work # <<>>
  /\ NodeCapOk
  /\ LET w  == Head(work)
         id == Len(nodes) + 1
         p  == nodes[w.parent]
     IN  \E k \in KernelAnswers(w.kind, w.entry, p.level + 1) :
           LET child == NewNode(w.kind, w.entry, w.parent, p.level + 1, p.treeId,
                                w.dSrc, w.dSrc + k.dt, k.l, k.r)
           IN  Commit(ProcessNode(
                        AttachChild([Engine EXCEPT !.nodes = Append(@, child)],
                                    w.parent, w.slot, id),
                        id, k.cmp, w.dSrc + k.eL, w.dSrc + k.eR))
  /\ work' = Tail(work)
  /\ replay' = IF replay.on THEN [replay EXCEPT !.answers = Tail(@)] ELSE replay
  /\ UNCHANGED <<numFaces, saddle, calls, pc, seeds, isPseudo, roots, faceLocations,
                 faceOccupiers, lastPopped, query>>

\* The loop over the sources is over.
StartLoop ==
  /\ pc = "seeds" /\ work = <<>> /\ seeds = <<>>
  /\ pc' = "loop"
  /\ lastPush' = {}
  /\ UNCHANGED <<numFaces, saddle, replay, calls, seeds, work, nodes, events, queue, occ, closest,
                 isPseudo, roots, faceLocations, faceOccupiers, lastPopped, query>>

\* --------------------------------------------------------------- main loop

\* Cone_expansion_event_min_priority_queue_comparator: a comes after b.
EventComparator(a, b) == a.est > b.est

\* m_expansionPriqueue.top(): an event that the comparator puts after no other.
PopCandidates(evs, q) == {e \in q : \A f \in q : ~EventComparator(evs[e], evs[f])}

\* The events top() may return under a rule for equal events.
TieBreak(rule, cands) ==
  IF rule = "first" THEN {e \in cands : \A f \in cands : e <= f}
  ELSE IF rule = "last" THEN {e \in cands : \A f \in cands : e >= f}
  ELSE cands


QueueNearlyDrained(q) == Cardinality(q) <= 1

\* while (m_expansionPriqueue.size() > 0): the test that ends the loop.
QueueDrained(q) == q = {}

\* if (!event->m_cancelled)
DispatchAlways(ev) == TRUE

ShouldDispatch(ev) == ~ev.cancelled

WindowDistanceFilterNoSwap(s, cone, reversed, g1, g2, g3) ==
  LET hasD1 == s.closest[Source(cone.entry)].node # NULL
      hasD2 == s.closest[TargetVertex(cone)].node # NULL
      hasD3 == s.closest[Target(cone.entry)].node # NULL
  IN  ~((hasD1 /\ g1) \/ (hasD2 /\ g2) \/ (hasD3 /\ g3))

\* window_distance_filter(cone, windowSegment, reversed): TRUE when the window
\* is kept.  g1, g2, g3 are the kernel's answers to the three comparisons
\* d + |I - B| > d1 + |v1 - B|, d + |I - A| > d2 + |v2 - A|, d + |I - A| > d3 + |v3 - A|.
WindowDistanceFilter(s, cone, reversed, g1, g2, g3) ==
  LET c1 == s.closest[Source(cone.entry)]
      c2 == s.closest[TargetVertex(cone)]
      c3 == s.closest[Target(cone.entry)]
      v1Distance == IF reversed THEN c3 ELSE c1
      v3Distance == IF reversed THEN c1 ELSE c3
      hasD1 == v1Distance.node # NULL
      hasD2 == c2.node # NULL
      hasD3 == v3Distance.node # NULL
  IN  ~((hasD1 /\ g1) \/ (hasD2 /\ g2) \/ (hasD3 /\ g3))


ExpandChildKeepSlot(s, ev, keep) ==
  LET e    == s.events[ev]
      left == e.kind = "LEFT_CHILD"
      cone == s.nodes[e.parent]
      item == WorkItem(e.parent, IF left THEN "left" ELSE "right",
                       IF left THEN LeftChildEdge(cone) ELSE RightChildEdge(cone),
                       "INTERVAL", cone.dSrc)
  IN  [s |-> s, work |-> IF keep THEN <<item>> ELSE <<>>]

\* expand_left_child / expand_right_child up to the creation of the child:
\* the pending slot is cleared, and the child is created if the filter keeps
\* the window.
ExpandChild(s, ev, keep) ==
  LET e    == s.events[ev]
      left == e.kind = "LEFT_CHILD"
      cone == s.nodes[e.parent]
      s1   == [s EXCEPT !.nodes[e.parent][IF left THEN "pendL" ELSE "pendR"] = NULL]
      item == WorkItem(e.parent, IF left THEN "left" ELSE "right",
                       IF left THEN LeftChildEdge(cone) ELSE RightChildEdge(cone),
                       "INTERVAL", cone.dSrc)
  IN  [s |-> s1, work |-> IF keep THEN <<item>> ELSE <<>>]

\* expand_pseudo_source up to its loop: the pending slot is cleared.
ExpandPseudoSource(s, ev) ==
  LET e    == s.events[ev]
      cone == s.nodes[e.parent]
  IN  [s |-> [s EXCEPT !.nodes[e.parent].pendM = NULL],
       work |-> FanWork(e.parent, TargetVertex(cone), cone.dTgt)]

\* One turn of the main loop: top, pop, dispatch unless cancelled, delete event.
PopEvent ==
  /\ pc = "loop" /\ work = <<>> /\ ~QueueDrained(queue)
  /\ NodeCapOk
  /\ \E ev \in TieBreak(calls.tie, PopCandidates(events, queue)) :
       LET e  == events[ev]
           go == ShouldDispatch(e)
           s0 == [Engine EXCEPT !.queue = @ \ {ev},
                                !.events[ev].popped = @ + 1,
                                !.events[ev].dispatched = go]
       IN  /\ lastPopped' = e.est
           /\ IF ~go
              THEN Commit(s0) /\ work' = <<>>
              ELSE IF e.kind = "PSEUDO_SOURCE"
              THEN LET r == ExpandPseudoSource(s0, ev)
                   IN  Commit(r.s) /\ work' = r.work
              ELSE \E g1 \in FilterAnswers, g2 \in FilterAnswers, g3 \in FilterAnswers :
                     LET keep == WindowDistanceFilter(s0, nodes[e.parent],
                                                      e.kind = "RIGHT_CHILD", g1, g2, g3)
                         r    == ExpandChild(s0, ev, keep)
                     IN  Commit(r.s) /\ work' = r.work
  /\ UNCHANGED <<numFaces, saddle, replay, calls, pc, seeds, isPseudo, roots, faceLocations,
                 faceOccupiers, query>>

\* add_to_face_list: the node, then its left, right and middle subtrees.
RECURSIVE AddToFaceList(_, _, _)
RECURSIVE AddMiddles(_, _, _, _)
AddMiddles(ns, n, i, f) ==
  IF i > Len(ns[n].middle) THEN <<>>
  ELSE AddToFaceList(ns, ns[n].middle[i], f) \o AddMiddles(ns, n, i + 1, f)

AddToEveryFaceList(ns, n, f) ==
  (IF ~IsRootNode(ns[n]) /\ ~IsNullFace(ns[n]) THEN <<n>> ELSE <<>>)
  \o (IF ns[n].left # NULL THEN AddToFaceList(ns, ns[n].left, f) ELSE <<>>)
  \o (IF ns[n].right # NULL THEN AddToFaceList(ns, ns[n].right, f) ELSE <<>>)
  \o AddMiddles(ns, n, 1, f)

AddToFaceList(ns, n, f) ==
  (IF ~IsRootNode(ns[n]) /\ ~IsNullFace(ns[n]) /\ FaceOf(ns[n].entry) = f THEN <<n>> ELSE <<>>)
  \o (IF ns[n].left # NULL THEN AddToFaceList(ns, ns[n].left, f) ELSE <<>>)
  \o (IF ns[n].right # NULL THEN AddToFaceList(ns, ns[n].right, f) ELSE <<>>)
  \o AddMiddles(ns, n, 1, f)

RECURSIVE AddRoots(_, _, _, _)
AddRoots(ns, rs, i, f) ==
  IF i > Len(rs) THEN <<>> ELSE AddToFaceList(ns, rs[i], f) \o AddRoots(ns, rs, i + 1, f)

\* cone_comparator
ConeComparator(ns, a, b) == ns[a].dSrc < ns[b].dSrc

\* std::sort(begin, end, cone_comparator), as an insertion sort.
RECURSIVE InsertSorted(_, _, _)
InsertSorted(ns, sorted, n) ==
  IF sorted = <<>> THEN <<n>>
  ELSE IF ConeComparator(ns, n, Head(sorted)) THEN <<n>> \o sorted
  ELSE <<Head(sorted)>> \o InsertSorted(ns, Tail(sorted), n)

UnsortedCones(ns, list) == list

RECURSIVE SortCones(_, _)
SortCones(ns, list) ==
  IF list = <<>> THEN <<>>
  ELSE InsertSorted(ns, SortCones(ns, SubSeq(list, 1, Len(list) - 1)), list[Len(list)])

\* m_faceOccupiers.clear(); m_faceOccupiers.resize(num_faces(m_polyhedron)):
\* the list of a face before the trees are walked.
ClearedFaceList(lists, f) == <<>>

\* The queue is empty: the face lists are rebuilt and sorted, and
\* compute_shortest_paths returns.
Finish ==
  /\ pc = "loop" /\ work = <<>> /\ QueueDrained(queue)
  /\ pc' = "done"
  /\ faceOccupiers' = [f \in Faces |->
                         SortCones(nodes, ClearedFaceList(faceOccupiers, f)
                                            \o AddRoots(nodes, roots, 1, f))]
  /\ lastPush' = {}
  /\ UNCHANGED <<numFaces, saddle, replay, calls, seeds, work, nodes, events, queue, occ, closest,
                 isPseudo, roots, faceLocations, lastPopped, query>>

\* ----------------------------------------------------------------- queries

NoLocation == [face |-> NullFace, bary |-> <<0, 0, 0>>]

\* What a visitor receives: edge(halfedge, t), vertex(v), face(face, bary); the
\* point wrapper turns each into point(...).
VisitorEvent(type, edge, vertex, loc) ==
  [type |-> type, edge |-> edge, vertex |-> vertex, loc |-> loc]

\* visit_shortest_path: the events from startNode up to the root.
VisitNodeSourceOfEdge(node, locs) ==
  IF node.kind \in {"INTERVAL", "EDGE_SOURCE"}
  THEN VisitorEvent("edge", node.entry, NULL, NoLocation)
  ELSE IF node.kind = "VERTEX_SOURCE"
  THEN VisitorEvent("vertex", NoEdge, Source(node.entry), NoLocation)
  ELSE VisitorEvent("face", NoEdge, NULL, locs[node.treeId + 1])

\* The switch of visit_shortest_path: the visitor call made for one node.
VisitNode(node, locs) ==
  IF node.kind \in {"INTERVAL", "EDGE_SOURCE"}
  THEN VisitorEvent("edge", node.entry, NULL, NoLocation)
  ELSE IF node.kind = "VERTEX_SOURCE"
  THEN VisitorEvent("vertex", NoEdge, Target(node.entry), NoLocation)
  ELSE VisitorEvent("face", NoEdge, NULL, locs[node.treeId + 1])

RECURSIVE VisitShortestPath(_, _, _, _)
VisitShortestPath(ns, locs, n, fuel) ==
  IF fuel = 0 \/ IsRootNode(ns[n]) THEN <<>>
  ELSE <<VisitNode(ns[n], locs)>> \o VisitShortestPath(ns, locs, ns[n].parent, fuel - 1)

\* Point_path_visitor_wrapper: every event becomes a point.
AsPoints(evs) == [i \in DOMAIN evs |-> [evs[i] EXCEPT !.type = "point"]]

\* nearest_on_face over the sorted list of the face.  inside[i] is the
\* kernel's inside_window for the i-th cone and off[i] its |I - location|.
\* found is FALSE while closestDistance has not been assigned.
SkipOnceFound(current, best) == best.node # NULL

\* if (closest != NULL && current->distance_from_source_to_root() >= closestDistance) continue;
SkipCandidate(current, best) == best.node # NULL /\ current.dSrc >= best.dist

RECURSIVE NearestOnFace(_, _, _, _, _, _)
NearestOnFace(ns, list, inside, off, i, best) ==
  IF i > Len(list) THEN best
  ELSE LET current == ns[list[i]]
           skip == SkipCandidate(current, best)
           currentDistance == current.dSrc + off[i]
           take == ~skip /\ i \in inside
                   /\ (best.node = NULL \/ currentDistance < best.dist)
       IN  NearestOnFace(ns, list, inside, off, i + 1,
                         IF take THEN [node |-> list[i], dist |-> currentDistance] ELSE best)

\* The queries are const member functions: they read the tables a call left
\* and write none of them, so the answer to a query does not depend on the
\* queries made before it.  The model follows one query from each state a call
\* returns in and records its answer.
NoQueryYet == query.op = "none"

\* What a read of the unassigned local closestDistance may return.
Garbage == 0..MaxDelta

\* shortest_distance_to_vertex(v)
ShortestDistanceToVertex ==
  /\ pc = "done" /\ NoQueryYet
  /\ \E v \in Vertices :
       query' = QueryResult("shortest_distance_to_vertex", v, NullFace,
                            closest[v].node # NULL, "value", closest[v].dist, <<>>)
  /\ UNCHANGED <<numFaces, saddle, replay, calls, pc, seeds, work, nodes, events, queue, occ, closest,
                 isPseudo, roots, faceLocations, faceOccupiers, lastPopped, lastPush>>

\* The kernel's answers for the cones of a face list.
InsideChoices(list) == {{}, DOMAIN list} \cup {{i} : i \in DOMAIN list}

\* |I - location| for the cones of the list: the same for all, or one cone
\* near the point and the others far from it.
OffsetChoices(list) ==
  {[i \in DOMAIN list |-> o] : o \in 0..MaxEst}
    \cup {[i \in DOMAIN list |-> IF i = k THEN 0 ELSE MaxDelta] : k \in DOMAIN list}

\* shortest_distance_to_location(face, alpha)
ShortestDistanceToLocation ==
  /\ pc = "done" /\ NoQueryYet
  /\ \E f \in Faces :
       \E inside \in InsideChoices(faceOccupiers[f]), off \in OffsetChoices(faceOccupiers[f]) :
         LET r == NearestOnFace(nodes, faceOccupiers[f], inside, off, 1, NoPair)
         IN  IF r.node # NULL
             THEN query' = QueryResult("shortest_distance_to_location", NULL, f, TRUE,
                                       "value", r.dist, <<>>)
             ELSE \E g \in Garbage :
                    query' = QueryResult("shortest_distance_to_location", NULL, f, FALSE,
                                         "value", g, <<>>)
  /\ UNCHANGED <<numFaces, saddle, replay, calls, pc, seeds, work, nodes, events, queue, occ, closest,
                 isPseudo, roots, faceLocations, faceOccupiers, lastPopped, lastPush>>

\* The ways a call that dereferences a null node can end, with what the
\* visitor had received before.
NullDereference(op, vertex, face, before) ==
  { QueryResult(op, vertex, face, FALSE, o, 0, before) : o \in {"crash", "garbage"} }

\* shortest_path_sequence(v, visitor) and shortest_path_points(v, visitor)
ShortestPathToVertex ==
  /\ pc = "done" /\ NoQueryYet
  /\ \E v \in Vertices, points \in BOOLEAN :
       LET current == closest[v].node
           op      == IF points THEN "shortest_path_points" ELSE "shortest_path_sequence"
           first   == IF points THEN <<VisitorEvent("point", NoEdge, v, NoLocation)>> ELSE <<>>
           walk    == VisitShortestPath(nodes, faceLocations, current, Len(nodes))
       IN  IF current = NULL
           THEN query' \in NullDereference(op, v, NullFace, first)
           ELSE query' = QueryResult(op, v, NullFace, TRUE, "visited", 0,
                                     first \o (IF points THEN AsPoints(walk) ELSE walk))
  /\ UNCHANGED <<numFaces, saddle, replay, calls, pc, seeds, work, nodes, events, queue, occ, closest,
                 isPseudo, roots, faceLocations, faceOccupiers, lastPopped, lastPush>>

\* shortest_path_sequence(face, alpha, visitor) and shortest_path_points(face, alpha, visitor)
ShortestPathToLocation ==
  /\ pc = "done" /\ NoQueryYet
  /\ \E f \in Faces, points \in BOOLEAN :
       \E inside \in InsideChoices(faceOccupiers[f]), off \in OffsetChoices(faceOccupiers[f]) :
         LET current == NearestOnFace(nodes, faceOccupiers[f], inside, off, 1, NoPair).node
             op      == IF points THEN "shortest_path_points" ELSE "shortest_path_sequence"
             first   == IF points
                        THEN <<VisitorEvent("point", NoEdge, NULL, [face |-> f, bary |-> <<1, 1, 1>>])>>
                        ELSE <<>>
             walk    == VisitShortestPath(nodes, faceLocations, current, Len(nodes))
         IN  IF current = NULL
             THEN query' \in NullDereference(op, NULL, f, first)
             ELSE query' = QueryResult(op, NULL, f, TRUE, "visited", 0,
                                       first \o (IF points THEN AsPoints(walk) ELSE walk))
  /\ UNCHANGED <<numFaces, saddle, replay, calls, pc, seeds, work, nodes, events, queue, occ, closest,
                 isPseudo, roots, faceLocations, faceOccupiers, lastPopped, lastPush>>

\* ----------------------------------------------------------- specification

Next ==
  \/ ComputeShortestPaths
  \/ ExpandRoot
  \/ ProcessChild
  \/ StartLoop
  \/ PopEvent
  \/ Finish
  \/ ShortestDistanceToVertex
  \/ ShortestDistanceToLocation
  \/ ShortestPathToVertex
  \/ ShortestPathToLocation

Spec == Init /\ [][Next]_vars

\* The runs on the fixed geometry, in which compute_shortest_paths is called
\* again after it returned.
InitCalls == Init /\ calls.fixed

SpecCalls == InitCalls /\ [][Next]_vars

\* ------------------------------------------------------------------ claims

\* The nodes reachable from a root by child links.
Alive == Attached(nodes, roots)

\* The pending slot of a node that holds an event of the given kind.
SlotOf(kind) ==
  IF kind = "LEFT_CHILD" THEN "pendL" ELSE IF kind = "RIGHT_CHILD" THEN "pendR" ELSE "pendM"

\* C1: every event in the queue whose cancelled flag is false has a parent
\* that is attached to the cone tree.
QueuedEventsHaveAttachedParent ==
  \A e \in queue : ~events[e].cancelled => events[e].parent \in Alive

\* C1, its case: delete_node has removed a node whose event is still queued
\* (and so cancelled).
DeletedNodeHasQueuedEvent ==
  \E e \in queue : events[e].cancelled /\ events[e].parent \notin Alive

\* C2: a cancelled event is never dispatched; a cancelled event that has not
\* been popped is still in the queue; an event is in the queue exactly until
\* its one pop; and when compute_shortest_paths returns every event has been
\* popped once.
CancelledNeverDispatched ==
  /\ \A e \in DOMAIN events :
       /\ events[e].dispatched => ~events[e].cancelled
       /\ events[e].popped <= 1
       /\ (events[e].popped = 0) = (e \in queue)
       /\ events[e].popped = 1 /\ ~events[e].cancelled => events[e].dispatched
  /\ pc = "done" => \A e \in DOMAIN events : events[e].popped = 1

\* C2, its case: a cancelled event has been popped and discarded while another
\* event was dispatched.
CancelledEventDiscarded ==
  /\ \E e \in DOMAIN events :
       events[e].cancelled /\ events[e].popped = 1 /\ ~events[e].dispatched
  /\ \E e \in DOMAIN events : events[e].dispatched

\* C4: an occupier entry that holds a node holds an attached node whose entry
\* edge is that halfedge and whose distance_from_target_to_root is the stored
\* distance.
OccupierIsAliveAndConsistent ==
  \A h \in DOMAIN occ :
    occ[h].node # NULL =>
      /\ occ[h].node \in Alive
      /\ nodes[occ[h].node].entry = h
      /\ nodes[occ[h].node].dTgt = occ[h].dist

\* C4, its case: delete_node has released the entry of a removed occupier
\* while other halfedges keep their occupiers.
OccupierReleasedOthersKept ==
  /\ \E h \in DOMAIN occ : occ[h].node = NULL /\ occ[h].dist > 0
  /\ \E h \in DOMAIN occ : occ[h].node # NULL

\* The arrival distances at vertex v: those of the occupiers whose target
\* vertex is v, and 0 when a root sits at v.
ArrivalDistances(v) ==
  {occ[h].dist : h \in {g \in DOMAIN occ : occ[g].node # NULL /\ Target(NextHalfedge(g)) = v}}
  \cup (IF IsRootNode(nodes[closest[v].node]) THEN {0} ELSE {})

\* C5: the distance stored for a vertex whose closest entry is set is the
\* least arrival distance of the occupiers that reach the vertex.
ClosestIsLeastArrival ==
  \A v \in DOMAIN closest :
    closest[v].node # NULL =>
      /\ ArrivalDistances(v) # {}
      /\ \A d \in ArrivalDistances(v) : closest[v].dist <= d
      /\ closest[v].dist \in ArrivalDistances(v)

\* C6: no attached node holds a cancelled event in a pending slot, and every
\* queued event that is not cancelled sits in the pending slot of its kind at
\* its parent (so it does when it is dequeued, and no node has two queued live
\* events of one kind).
PendingSlotsMatchQueue ==
  /\ \A n \in Alive : \A slot \in {"pendL", "pendR", "pendM"} :
       nodes[n][slot] # NULL => ~events[nodes[n][slot]].cancelled
  /\ \A e \in queue :
       ~events[e].cancelled => nodes[events[e].parent][SlotOf(events[e].kind)] = e

\* C6, its case: one event of a node has been cancelled and is still queued
\* while the node keeps another, live, pending event.
CancelledBesideLivePending ==
  \E e \in queue, f \in queue :
    /\ events[e].cancelled /\ ~events[f].cancelled
    /\ events[e].parent = events[f].parent
    /\ events[e].parent \in Alive

\* C3: every pop takes an event whose estimate is at least the estimate of the
\* event popped before it, whenever that event was pushed.
PoppedEstimatesNeverDecrease ==
  [][\A e \in queue \ queue' : lastPopped <= events[e].est]_vars

\* C7: a distance query that finds no node answers with an explicit
\* unreachable outcome, not with a number.
UnreachableDistanceIsExplicit ==
  query.op \in {"shortest_distance_to_vertex", "shortest_distance_to_location"} /\ ~query.found
    => query.outcome = "unreachable"

\* C8: a path query that finds no node reports unreachable and hands nothing
\* to the visitor.
UnreachablePathIsExplicit ==
  query.op \in {"shortest_path_sequence", "shortest_path_points"} /\ ~query.found
    => query.outcome = "unreachable" /\ query.emitted = <<>>

\* C9: the turn of the source loop that takes a location with a negative
\* coordinate or a sum other than one creates no node and no root, pushes no
\* event and leaves the occupier and closest tables as they were.
InvalidLocationChangesNothing ==
  [][ /\ pc = "seeds" /\ seeds # <<>>
      /\ ClassifyBarycentric(Head(seeds).bary).type = "INVALID"
      /\ seeds' = Tail(seeds)
      => /\ nodes' = nodes /\ roots' = roots
         /\ events' = events /\ queue' = queue
         /\ occ' = occ /\ closest' = closest ]_vars

\* C9, its case: an invalid location has been taken after a valid one had
\* built its root and set occupiers, and the run went on.
InvalidLocationSkipped ==
  /\ pc = "seeds" /\ seeds = <<>> /\ work = <<>>
  /\ \E i \in DOMAIN faceLocations :
       ClassifyBarycentric(faceLocations[i].bary).type = "INVALID"
  /\ Len(roots) = 1 /\ Len(faceLocations) = 2
  /\ \E h \in DOMAIN occ : occ[h].node # NULL

\* C10: the edge a LEFT_CHILD or RIGHT_CHILD event is to cross, and the entry
\* edge of every INTERVAL node, is on a face of the mesh.
NoChildOnNullFace ==
  /\ \A e \in DOMAIN events :
       /\ events[e].kind = "LEFT_CHILD"
            => FaceOf(LeftChildEdge(nodes[events[e].parent])) # NullFace
       /\ events[e].kind = "RIGHT_CHILD"
            => FaceOf(RightChildEdge(nodes[events[e].parent])) # NullFace
  /\ \A n \in DOMAIN nodes :
       nodes[n].kind = "INTERVAL" => FaceOf(nodes[n].entry) # NullFace

\* C10, its case: an attached node whose left child edge is on the null face
\* has been processed below the level limit and has its right event pending,
\* and no left one.
BorderSideNotPushed ==
  \E n \in Alive :
    /\ nodes[n].kind = "INTERVAL"
    /\ nodes[n].level < numFaces
    /\ FaceOf(LeftChildEdge(nodes[n])) = NullFace
    /\ nodes[n].pendR # NULL /\ nodes[n].pendL = NULL

\* The step of the source loop that takes a location of the face: no negative
\* weight, and the weights sum to one.
TakesValidLocation ==
  /\ pc = "seeds" /\ seeds # <<>> /\ seeds' = Tail(seeds)
  /\ \A i \in 1..3 : Head(seeds).bary[i] >= 0
  /\ Head(seeds).bary[1] + Head(seeds).bary[2] + Head(seeds).bary[3] = BaryOne

\* C11: a location of the face gets exactly one root, whose children are
\* three FACE_SOURCE nodes when no weight is zero, EDGE_SOURCE nodes when one
\* weight is zero, and VERTEX_SOURCE nodes around the corner of the nonzero
\* weight, which becomes closest at distance 0, when two weights are zero.
RootKindFollowsClassification ==
  [][ TakesValidLocation =>
        LET b     == Head(seeds).bary
            zeros == {i \in 1..3 : b[i] = 0}
            root  == Len(nodes) + 1
        IN  /\ Len(nodes') = root /\ nodes'[root].kind = "ROOT"
            /\ roots' = Append(roots, root)
            /\ work' # <<>>
            /\ \A i \in DOMAIN work' : work'[i].parent = root
            /\ Cardinality(zeros) = 0 =>
                 Len(work') = 3 /\ \A i \in DOMAIN work' : work'[i].kind = "FACE_SOURCE"
            /\ Cardinality(zeros) = 1 =>
                 \A i \in DOMAIN work' : work'[i].kind = "EDGE_SOURCE"
            /\ Cardinality(zeros) = 2 =>
                 LET v == FaceCorners[Head(seeds).face][CHOOSE i \in 1..3 : b[i] # 0]
                 IN  /\ \A i \in DOMAIN work' :
                          work'[i].kind = "VERTEX_SOURCE" /\ Target(work'[i].entry) = v
                     /\ closest'[v] = [node |-> root, dist |-> 0] ]_vars

\* C11, its case: a source at a corner of its face has got its root, and the
\* children about to be created are VERTEX_SOURCE nodes.
VertexRootFanned ==
  /\ pc = "seeds" /\ Len(roots) = 1 /\ Len(nodes) = 1
  /\ work # <<>> /\ \A i \in DOMAIN work : work[i].kind = "VERTEX_SOURCE"
  /\ Cardinality({i \in 1..3 : faceLocations[1].bary[i] = 0}) = 2

\* C12: once an edge root has all its children, it has two EDGE_SOURCE
\* children on each side of its edge whose face is a face of the mesh, and none
\* on a side whose face is the null face.
EdgeRootChildrenOnFaces ==
  \A r \in DOMAIN nodes :
    /\ nodes[r].kind = "ROOT" /\ nodes[r].middle # <<>>
    /\ nodes[nodes[r].middle[1]].kind = "EDGE_SOURCE"
    /\ work = <<>>
    => LET h == nodes[nodes[r].middle[1]].entry
       IN  \A g \in {h, Opposite(h)} :
             Cardinality({i \in DOMAIN nodes[r].middle : nodes[nodes[r].middle[i]].entry = g})
               = IF FaceOf(g) = NullFace THEN 0 ELSE 2

\* The vertices at which a source has been placed: the corner of the nonzero
\* weight of every location taken so far that has two zero weights.
SourceVertices ==
  {FaceCorners[faceLocations[i].face][CHOOSE k \in 1..3 : faceLocations[i].bary[k] # 0] :
     i \in {j \in DOMAIN faceLocations :
              ClassifyBarycentric(faceLocations[j].bary).type = "VERTEX"}}

\* C13: a vertex at which a source was placed keeps a root as its closest
\* node at distance 0, no event is ever queued for a root, and the distance
\* reported for such a vertex is 0.
SourceVertexStaysClosest ==
  /\ \A v \in SourceVertices :
       /\ closest[v].node # NULL /\ IsRootNode(nodes[closest[v].node]) /\ closest[v].dist = 0
       /\ query.op = "shortest_distance_to_vertex" /\ query.vertex = v
            => query.found /\ query.value = 0
  /\ \A e \in DOMAIN events : ~IsRootNode(nodes[events[e].parent])
  /\ \A n \in DOMAIN nodes : IsRootNode(nodes[n]) => nodes[n].pendM = NULL

\* C13, its case: the run is over, and a cone that is not a root has reached
\* the vertex of the source and holds its edge.
ConeReachedSourceVertex ==
  /\ pc = "done"
  /\ \E v \in SourceVertices : \E n \in DOMAIN nodes :
       /\ ~IsRootNode(nodes[n]) /\ TargetVertex(nodes[n]) = v
       /\ occ[nodes[n].entry].node = n

\* C14: when expand_pseudo_source starts for a node p, the children it is to
\* create are VERTEX_SOURCE middle children of p, one for each halfedge whose
\* target is p's target vertex and no other, each at p's distance from target
\* to root, and p's pending middle event is cleared; and each child it then
\* creates is the one listed and becomes the last middle child of p.
FanCoversRingOnce ==
  [][ /\ work = <<>> /\ work' # <<>> /\ work'[1].kind = "VERTEX_SOURCE"
        => LET p    == work'[1].parent
               v    == TargetVertex(nodes'[p])
               into == {h \in Halfedges : Target(h) = v}
           IN  /\ {work'[i].entry : i \in DOMAIN work'} = into
               /\ Len(work') = Cardinality(into)
               /\ \A i \in DOMAIN work' :
                    /\ work'[i].parent = p /\ work'[i].slot = "middle"
                    /\ work'[i].kind = "VERTEX_SOURCE"
                    /\ work'[i].dSrc = nodes'[p].dTgt
               /\ nodes'[p].pendM = NULL
      /\ work # <<>> /\ Head(work).kind = "VERTEX_SOURCE" /\ work' = Tail(work)
        => LET w  == Head(work)
               id == Len(nodes')
           IN  /\ id = Len(nodes) + 1
               /\ nodes'[id].kind = "VERTEX_SOURCE" /\ nodes'[id].entry = w.entry
               /\ nodes'[id].dSrc = w.dSrc /\ nodes'[id].parent = w.parent
               /\ nodes'[w.parent].middle = Append(nodes[w.parent].middle, id) ]_vars

\* C14, its case: a cone that is not a root has been expanded as a
\* pseudo-source at a vertex of the boundary, and all its children exist, one
\* of them on the null face.
BoundaryFanComplete ==
  /\ work = <<>>
  /\ \E p \in DOMAIN nodes :
       /\ ~IsRootNode(nodes[p])
       /\ Len(nodes[p].middle) = Cardinality({h \in Halfedges : Target(h) = TargetVertex(nodes[p])})
       /\ \E i \in DOMAIN nodes[p].middle : IsNullFace(nodes[nodes[p].middle[i]])

\* A vertex of the boundary: an end of a halfedge that is on the null face or
\* whose opposite is.
OnBoundary(v) ==
  \E h \in Halfedges :
    /\ v \in {Source(h), Target(h)}
    /\ FaceOf(h) = NullFace \/ FaceOf(Opposite(h)) = NullFace

\* C15: after set_vertex_types a vertex is a pseudo-source exactly when it is
\* a saddle or on the boundary; is_boundary_vertex answers true exactly for
\* the vertices of the boundary, and its walk visits each halfedge into the
\* vertex once and stops.
PseudoSourcesAreSaddlesAndBoundary ==
  isPseudo # <<>> =>
    \A v \in Vertices :
      /\ isPseudo[v] = (saddle[v] \/ OnBoundary(v))
      /\ IsBoundaryVertex(v) = OnBoundary(v)
      /\ Len(Ring(v)) = Cardinality({h \in Halfedges : Target(h) = v})
      /\ {Ring(v)[i] : i \in DOMAIN Ring(v)} = {h \in Halfedges : Target(h) = v}

\* C15, its case: on a mesh with an interior vertex that is no saddle,
\* set_vertex_types has marked the boundary vertices and left that one unmarked.
InteriorVertexNotPseudoSource ==
  /\ isPseudo # <<>>
  /\ \E v \in Vertices : ~OnBoundary(v) /\ ~saddle[v] /\ ~isPseudo[v]
  /\ \E v \in Vertices : OnBoundary(v) /\ ~saddle[v] /\ isPseudo[v]

\* C16: no event belongs to a node whose level is not below the number of
\* faces, and no node has a level above the number of faces.
LevelBoundedByFaceCount ==
  /\ \A e \in DOMAIN events : nodes[events[e].parent].level < numFaces
  /\ \A n \in DOMAIN nodes : nodes[n].level <= numFaces

\* C16, its case: a cone at the level of the number of faces has taken its
\* edge and become the closest node of a pseudo-source vertex, its left child
\* edge is on a face of the mesh, and it has nothing pending.
ConeAtLevelLimitWon ==
  \E n \in Alive :
    /\ nodes[n].level = numFaces
    /\ occ[nodes[n].entry].node = n
    /\ FaceOf(nodes[n].entry) # NullFace /\ FaceOf(LeftChildEdge(nodes[n])) # NullFace
    /\ closest[TargetVertex(nodes[n])].node = n /\ isPseudo[TargetVertex(nodes[n])]
    /\ nodes[n].pendL = NULL /\ nodes[n].pendR = NULL /\ nodes[n].pendM = NULL
    /\ work = <<>>

\* C17: when compute_shortest_paths has returned, the list of every face is in
\* nondecreasing order of distance_from_source_to_root.
FaceListsSorted ==
  pc = "done" =>
    \A f \in DOMAIN faceOccupiers :
      \A i \in DOMAIN faceOccupiers[f], j \in DOMAIN faceOccupiers[f] :
        i < j => nodes[faceOccupiers[f][i]].dSrc <= nodes[faceOccupiers[f][j]].dSrc

\* C17, its case: the walk of the trees had put a farther cone before a nearer
\* one in the list of a face, and the run has returned.
SortReorderedFaceList ==
  /\ pc = "done"
  /\ \E f \in DOMAIN faceOccupiers :
       LET walk == AddRoots(nodes, roots, 1, f)
       IN  \E i \in DOMAIN walk, j \in DOMAIN walk :
             i < j /\ nodes[walk[i]].dSrc > nodes[walk[j]].dSrc

\* The cones add_to_face_list is to put in the list of face f: attached to a
\* root's subtree, not a root, and on face f.
ConesOnFace(f) ==
  {n \in Alive : ~IsRootNode(nodes[n]) /\ ~IsNullFace(nodes[n]) /\ FaceOf(nodes[n].entry) = f}

\* C18: when compute_shortest_paths has returned, the list of every face holds
\* exactly the attached cones on that face that are not roots, each once; so
\* it holds no deleted node, no cone on the null face and no node of an
\* earlier call.
FaceListsHoldAttachedCones ==
  pc = "done" =>
    \A f \in Faces :
      /\ {faceOccupiers[f][i] : i \in DOMAIN faceOccupiers[f]} = ConesOnFace(f)
      /\ \A i \in DOMAIN faceOccupiers[f], j \in DOMAIN faceOccupiers[f] :
           i # j => faceOccupiers[f][i] # faceOccupiers[f][j]

\* C18, its case: a second call has returned; the first call had left cones
\* in the lists, and this call deleted a node on a face of the mesh and keeps
\* an attached cone on the null face.
SecondCallRebuiltFaceLists ==
  /\ pc = "done" /\ calls.count > 1
  /\ \E f \in Faces : calls.previous.cones[f] # {} /\ faceOccupiers[f] # <<>>
  /\ \E n \in DOMAIN nodes :
       n > roots[1] /\ n \notin Alive /\ ~IsNullFace(nodes[n])
  /\ \E n \in Alive : ~IsRootNode(nodes[n]) /\ IsNullFace(nodes[n])

\* C19: a call of compute_shortest_paths that follows another one on the same
\* mesh, sources and geometry returns with the distance of every vertex and the
\* cones of every face that the call before it left.
SecondCallSameResult ==
  pc = "done" /\ calls.count > 1 =>
    ResultOf(nodes, closest, faceOccupiers) = calls.previous

\* C19, its case: the second call has returned; the first one had left
\* occupiers, closest entries at a positive distance and cones on a face.
SecondCallReturned ==
  /\ pc = "done" /\ calls.count > 1
  /\ \E v \in Vertices : calls.previous.dist[v] > 0 /\ closest[v].node # NULL
  /\ \E f \in Faces : calls.previous.cones[f] # {}
  /\ \E h \in Halfedges : occ[h].node # NULL

\* C21: every shortest_path_sequence call delivers its events from the query
\* toward the source, an edge or a vertex event per crossing, and the last
\* event is the face event of a source location, whatever the kind of source.
SequenceEndsWithSourceFace ==
  query.op = "shortest_path_sequence" =>
    /\ query.outcome = "visited"
    /\ query.emitted # <<>>
    /\ \A i \in DOMAIN query.emitted :
         IF i = Len(query.emitted)
         THEN /\ query.emitted[i].type = "face"
              /\ \E k \in DOMAIN faceLocations : query.emitted[i].loc = faceLocations[k]
         ELSE query.emitted[i].type \in {"edge", "vertex"}

\* C22: when a call of compute_shortest_paths, the first one or a later one,
\* comes to its loop over the sources, the queue, the root list and the list of
\* face locations are empty, the closest node of every vertex and the occupier
\* of every halfedge are null, and the two tables have one entry per vertex
\* and one per halfedge of the mesh.
ResetBeforeFirstSeed ==
  [][ pc' = "seeds" /\ pc # "seeds" =>
        /\ queue' = {}
        /\ roots' = <<>>
        /\ faceLocations' = <<>>
        /\ DOMAIN closest' = Vertices
        /\ \A v \in Vertices : closest'[v].node = NULL
        /\ DOMAIN occ' = Halfedges
        /\ \A h \in Halfedges : occ'[h].node = NULL ]_vars

\* C22, its case: a later call is at its loop over the sources with a source
\* to expand; the call before it had left nodes, closest entries at a positive
\* distance and cones in the face lists.
SecondCallAtFirstSeed ==
  /\ pc = "seeds" /\ calls.count > 1 /\ seeds # <<>>
  /\ roots = <<>> /\ faceLocations = <<>>
  /\ nodes # <<>>
  /\ \E v \in Vertices : calls.previous.dist[v] > 0
  /\ \E f \in Faces : calls.previous.cones[f] # {}

\* More children than one handler creates: expand_face_root makes one for
\* each halfedge of a face, expand_edge_root two for each halfedge of an edge,
\* expand_vertex_root and expand_pseudo_source one for each halfedge into the
\* vertex, and the mesh has at least the six halfedges of one triangle.
MostChildren == Cardinality(Halfedges)

\* The steps a cone at a level can still cause, when one handler creates at
\* most `most` children: its own process_node, and below the level limit a
\* left, a right and a pseudo-source event, each popped once and followed by
\* the children it creates.
RECURSIVE StepsOfCone(_, _)
StepsOfCone(level, most) ==
  IF level >= numFaces THEN 1
  ELSE LET below == StepsOfCone(level + 1, most)
       IN  1 + 2 * (1 + below) + (1 + most * below)

\* The steps a queued event can still cause.
StepsOfEvent(e, most) ==
  LET below == StepsOfCone(nodes[events[e].parent].level + 1, most)
  IN  IF events[e].kind = "PSEUDO_SOURCE" THEN 1 + most * below ELSE 1 + below

RECURSIVE StepsOfEvents(_, _)
StepsOfEvents(S, most) ==
  IF S = {} THEN 0
  ELSE LET e == CHOOSE x \in S : TRUE
       IN  StepsOfEvent(e, most) + StepsOfEvents(S \ {e}, most)

RECURSIVE StepsOfWork(_, _)
StepsOfWork(items, most) ==
  IF items = <<>> THEN 0
  ELSE StepsOfCone(nodes[Head(items).parent].level + 1, most) + StepsOfWork(Tail(items), most)

\* A bound on the steps a running call can still take: the sources to expand,
\* the children to create, the events to pop, the end of the two loops.
StepsLeft ==
  LET most == MostChildren
  IN  (IF pc = "seeds" THEN 2 ELSE IF pc = "loop" THEN 1 ELSE 0)
      + Len(seeds) * (1 + most * StepsOfCone(1, most))
      + StepsOfWork(work, most)
      + StepsOfEvents(queue, most)

\* C23: compute_shortest_paths terminates: every step of a running call, the
\* expansion of a source, the processing of a node (which pushes at most one
\* event per kind and none at the level of the number of faces) and the pop of
\* an event, lowers a bound on the steps left, which is a natural number.
CallTerminates ==
  [][(pc \in {"seeds", "loop"}) => ((StepsLeft' < StepsLeft) /\ (0 <= StepsLeft'))]_vars

\* C23, its case: the call has returned after events were popped, and a cone
\* at the level of the number of faces is in the tree, having pushed nothing.
ReturnedAtLevelLimit ==
  /\ pc = "done" /\ queue = {}
  /\ \E e \in DOMAIN events : events[e].popped > 0
  /\ \E n \in Alive : nodes[n].level = numFaces
                        /\ \A e \in DOMAIN events : events[e].parent # n

\* C24: when process_node runs on a new cone that contains its target vertex,
\* the cone becomes the occupier of its entry halfedge exactly when the
\* halfedge has no occupier or the stored distance is strictly greater than
\* the cone's distance to its target; otherwise (also on equal distances) the
\* occupiers, the closest nodes, the children and pending events of the other
\* nodes and the queued events stay as they were.
ArbitrationOnStrictlySmaller ==
  [][(work # <<>> /\ Len(nodes') = Len(nodes) + 1) =>
       LET n        == Len(nodes')
           node     == nodes'[n]
           h        == node.entry
           w        == Head(work)
           contains == node.kind \in SourceKinds \/ (node.hasLeft /\ node.hasRight)
           free     == occ[h].node = NULL \/ occ[h].dist > node.dTgt
           attached == IF w.slot = "middle"
                       THEN [nodes[w.parent] EXCEPT !.middle = Append(@, n)]
                       ELSE [nodes[w.parent] EXCEPT ![w.slot] = n]
       IN  /\ (occ'[h].node = n) <=> (contains /\ free)
           /\ (contains /\ free) => occ'[h].dist = node.dTgt
           /\ (contains /\ ~free) =>
                /\ occ' = occ
                /\ closest' = closest
                /\ \A m \in DOMAIN nodes :
                     nodes'[m] = IF m = w.parent THEN attached ELSE nodes[m]
                /\ \A e \in DOMAIN events : events'[e] = events[e]]_vars

\* C24, its case: the newest cone contains its target vertex and met an
\* occupier at exactly its own distance, which stayed.
TieKeptIncumbent ==
  /\ nodes # <<>>
  /\ LET n    == Len(nodes)
         node == nodes[n]
     IN  /\ node.kind \in SourceKinds \/ (node.hasLeft /\ node.hasRight)
         /\ node.kind # "ROOT"
         /\ occ[node.entry].node \notin {NULL, n}
         /\ occ[node.entry].dist = node.dTgt

\* Whether node m is in the subtree of node top, by the parent links.
RECURSIVE IsInSubtree(_, _, _)
IsInSubtree(ns, m, top) ==
  m = top \/ (ns[m].parent # NULL /\ IsInSubtree(ns, ns[m].parent, top))

\* C25: when a new cone displaces the occupier of its entry halfedge, the
\* eviction step takes exactly one side of the loser: the left side when the
\* cone is left of the loser, else the right side.  The child subtree of that
\* side is removed (unlinked from the loser, its nodes left without children
\* and pending events), or without a child the pending event of that side is
\* cancelled; the loser's record is otherwise as before, and so are all nodes
\* and events outside the removed subtree: its other child, its middle
\* children, their subtrees and their events.
EvictionTakesOneSide ==
  [][(/\ work # <<>>
      /\ Len(nodes') = Len(nodes) + 1
      /\ occ[nodes'[Len(nodes')].entry].node # NULL) =>
       LET n     == Len(nodes')
           w     == Head(work)
           made  == nodes'[n]
           fresh == NewNode(made.kind, made.entry, made.parent, made.level, made.treeId,
                            made.dSrc, made.dTgt, made.hasLeft, made.hasRight)
       IN  \A cmpSmaller \in BOOLEAN,
              s0 \in {AttachChild([Engine EXCEPT !.nodes = Append(@, fresh)], w.parent, w.slot, n)} :
           \A a \in {Arbitration(s0, n, cmpSmaller)} :
           \A s1 \in {TakeEdge(s0, n, a)} :
             LET loser == a.cur.node
                 side  == IF a.isLeft THEN "left" ELSE "right"
                 pend  == IF a.isLeft THEN "pendL" ELSE "pendR"
                 gone  == s0.nodes[loser][side]
                 event == s0.nodes[loser][pend]
             IN  (a.wins /\ loser # NULL) =>
                   /\ s1.nodes[loser] = [s0.nodes[loser] EXCEPT ![side] = NULL,
                                           ![pend] = IF gone # NULL THEN @ ELSE NULL]
                   /\ (gone = NULL /\ event # NULL) => s1.events[event].cancelled
                   /\ \A m \in DOMAIN s0.nodes :
                        (gone # NULL /\ IsInSubtree(s0.nodes, m, gone))
                          => /\ ChildrenOf(s1.nodes, m) = {}
                             /\ s1.nodes[m].pendL = NULL
                             /\ s1.nodes[m].pendR = NULL
                             /\ s1.nodes[m].pendM = NULL
                   /\ \A m \in DOMAIN s0.nodes \ {loser} :
                        (gone = NULL \/ ~IsInSubtree(s0.nodes, m, gone))
                          => s1.nodes[m] = s0.nodes[m]
                   /\ \A e \in DOMAIN s0.events :
                        IF gone = NULL
                        THEN e # event => s1.events[e] = s0.events[e]
                        ELSE ~IsInSubtree(s0.nodes, s0.events[e].parent, gone)
                               => s1.events[e] = s0.events[e]]_vars

\* C25, its case: the newest cone took its entry halfedge from a cone that is
\* still in the tree, and a child subtree of that cone was removed.
LoserLostOneSubtree ==
  /\ nodes # <<>>
  /\ LET n == Len(nodes)
     IN  /\ nodes[n].kind # "ROOT"
         /\ occ[nodes[n].entry].node = n
         /\ \E loser \in Alive \ {n} :
              /\ nodes[loser].entry = nodes[n].entry
              /\ nodes[loser].dTgt > nodes[n].dTgt
              /\ \E c \in DOMAIN nodes :
                   /\ nodes[c].parent = loser
                   /\ nodes[c].kind = "INTERVAL"
                   /\ c \notin ChildrenOf(nodes, loser)

\* C26: process_node pushes a PSEUDO_SOURCE event for the new cone exactly
\* when the cone became the occupier of its entry halfedge, the closest entry
\* of its target vertex (read after the eviction on the edge) is null or
\* strictly farther, the target vertex is flagged pseudo-source and the cone's
\* level is below the number of faces; then the pending middle event of the
\* previous closest node is cancelled, its middle children are deleted, and
\* the cone is recorded as closest.
PseudoSourcePushedByNewClosest ==
  [][(work # <<>> /\ Len(nodes') = Len(nodes) + 1) =>
       LET n      == Len(nodes')
           w      == Head(work)
           made   == nodes'[n]
           h      == made.entry
           tv     == TargetVertex(made)
           fresh  == NewNode(made.kind, made.entry, made.parent, made.level, made.treeId,
                             made.dSrc, made.dTgt, made.hasLeft, made.hasRight)
           became == /\ made.kind \in SourceKinds \/ (made.hasLeft /\ made.hasRight)
                     /\ occ[h].node = NULL \/ occ[h].dist > made.dTgt
           pushed == made.pendM # NULL
       IN  \E cmpSmaller \in BOOLEAN,
              s0 \in {AttachChild([Engine EXCEPT !.nodes = Append(@, fresh)], w.parent, w.slot, n)} :
           \E s1 \in {TakeEdge(s0, n, Arbitration(s0, n, cmpSmaller))} :
             LET cc  == s1.closest[tv]
                 old == cc.node
             IN  /\ pushed <=> /\ became
                               /\ old = NULL \/ cc.dist > made.dTgt
                               /\ isPseudo[tv]
                               /\ made.level < numFaces
                 /\ pushed =>
                      /\ made.pendM \in queue' \ DOMAIN events
                      /\ events'[made.pendM].parent = n
                      /\ events'[made.pendM].kind = "PSEUDO_SOURCE"
                      /\ ~events'[made.pendM].cancelled
                      /\ closest'[tv] = [node |-> n, dist |-> made.dTgt]
                 /\ (pushed /\ old # NULL) =>
                      /\ nodes'[old].pendM = NULL
                      /\ s1.nodes[old].pendM # NULL => events'[s1.nodes[old].pendM].cancelled
                      /\ nodes'[old].middle = <<>>
                      /\ \A c \in DOMAIN nodes :
                           (\E i \in DOMAIN s1.nodes[old].middle :
                              IsInSubtree(nodes, c, s1.nodes[old].middle[i]))
                             => /\ ChildrenOf(nodes', c) = {}
                                /\ nodes'[c].pendL = NULL
                                /\ nodes'[c].pendR = NULL
                                /\ nodes'[c].pendM = NULL]_vars

\* C26, its case: the newest cone has pushed its PSEUDO_SOURCE event and is the
\* closest node of its target vertex, and a farther cone to the same vertex,
\* still in the tree, has had its PSEUDO_SOURCE event cancelled.
NewClosestEvictedFan ==
  /\ nodes # <<>>
  /\ LET n == Len(nodes)
     IN  /\ nodes[n].kind # "ROOT"
         /\ nodes[n].pendM # NULL
         /\ closest[TargetVertex(nodes[n])].node = n
         /\ \E e \in DOMAIN events :
              LET old == events[e].parent
              IN  /\ events[e].kind = "PSEUDO_SOURCE"
                  /\ events[e].cancelled
                  /\ old \in Alive
                  /\ nodes[old].kind # "ROOT"
                  /\ TargetVertex(nodes[old]) = TargetVertex(nodes[n])
                  /\ nodes[old].dTgt > nodes[n].dTgt

\* C27: no RIGHT_CHILD event has a FACE_SOURCE, EDGE_SOURCE or VERTEX_SOURCE
\* node as its parent, and no LEFT_CHILD or RIGHT_CHILD event has as its
\* parent a VERTEX_SOURCE node whose entry halfedge is on the null face.
SourceNodesPushNoRight ==
  \A e \in DOMAIN events :
    LET parent == nodes[events[e].parent]
    IN  /\ events[e].kind = "RIGHT_CHILD" => parent.kind \notin SourceKinds
        /\ events[e].kind \in {"LEFT_CHILD", "RIGHT_CHILD"} =>
             ~(parent.kind = "VERTEX_SOURCE" /\ FaceOf(parent.entry) = NullFace)

\* C27, its case: a VERTEX_SOURCE node on the null face, below the level
\* limit, has pushed a PSEUDO_SOURCE event and no other, and a source node
\* that met an occupier at no greater distance is in the tree.
NullFaceFanNodePushedMiddleOnly ==
  /\ \E n \in DOMAIN nodes :
       /\ nodes[n].kind = "VERTEX_SOURCE"
       /\ FaceOf(nodes[n].entry) = NullFace
       /\ nodes[n].level < numFaces
       /\ \E e \in DOMAIN events : events[e].parent = n /\ events[e].kind = "PSEUDO_SOURCE"
       /\ \A e \in DOMAIN events : events[e].parent = n => events[e].kind = "PSEUDO_SOURCE"
  /\ \E m \in Alive :
       /\ nodes[m].kind \in SourceKinds
       /\ occ[nodes[m].entry].node \notin {NULL, m}
       /\ occ[nodes[m].entry].dist <= nodes[m].dTgt

\* C28, as stated: a new cone that contains its target vertex and loses the
\* arbitration pushes no PSEUDO_SOURCE event and at most one child event, a
\* LEFT_CHILD event only if it is left of the occupier and a RIGHT_CHILD event
\* only if it is not and is an INTERVAL node; a cone that does not contain its
\* target vertex pushes a left event iff it has a left side and a right event
\* iff it has a right side.
LostOrOutsidePushesBySide ==
  [][(work # <<>> /\ Len(nodes') = Len(nodes) + 1) =>
       LET made     == nodes'[Len(nodes')]
           cur      == occ[made.entry]
           contains == made.kind \in SourceKinds \/ (made.hasLeft /\ made.hasRight)
           lost     == contains /\ cur.node # NULL /\ cur.dist <= made.dTgt
           pushedL  == made.pendL # NULL
           pushedR  == made.pendR # NULL
           pushedM  == made.pendM # NULL
       IN  /\ lost =>
                \E cmpSmaller \in BOOLEAN :
                  LET isLeftOfCurrent ==
                        IF made.kind = "VERTEX_SOURCE" THEN FALSE
                        ELSE IF nodes[cur.node].kind = "VERTEX_SOURCE" THEN TRUE
                        ELSE cmpSmaller
                  IN  /\ ~pushedM
                      /\ ~(pushedL /\ pushedR)
                      /\ pushedL => isLeftOfCurrent
                      /\ pushedR => (~isLeftOfCurrent /\ made.kind = "INTERVAL")
           /\ ~contains =>
                /\ pushedL <=> made.hasLeft
                /\ pushedR <=> made.hasRight]_vars

\* C28, amended: the same, where each child event is pushed only below the
\* level limit and only across an edge that is not on the null face: the
\* cone that lost pushes its one event exactly then, and the cone that does
\* not contain its target vertex pushes a left event iff it has a left side,
\* its level is below the number of faces and its left child edge is not on
\* the null face, and a right event likewise.
LostOrOutsidePushesBySideIfAllowed ==
  [][(work # <<>> /\ Len(nodes') = Len(nodes) + 1) =>
       LET made     == nodes'[Len(nodes')]
           cur      == occ[made.entry]
           contains == made.kind \in SourceKinds \/ (made.hasLeft /\ made.hasRight)
           lost     == contains /\ cur.node # NULL /\ cur.dist <= made.dTgt
           pushedL  == made.pendL # NULL
           pushedR  == made.pendR # NULL
           pushedM  == made.pendM # NULL
           mayLeft  == made.level < numFaces
                         /\ FaceOf(Opposite(NextHalfedge(made.entry))) # NullFace
           mayRight == made.level < numFaces
                         /\ FaceOf(Opposite(NextHalfedge(NextHalfedge(made.entry)))) # NullFace
       IN  /\ lost =>
                \E cmpSmaller \in BOOLEAN :
                  LET isLeftOfCurrent ==
                        IF made.kind = "VERTEX_SOURCE" THEN FALSE
                        ELSE IF nodes[cur.node].kind = "VERTEX_SOURCE" THEN TRUE
                        ELSE cmpSmaller
                  IN  /\ ~pushedM
                      /\ pushedL <=> (isLeftOfCurrent /\ mayLeft)
                      /\ pushedR <=> (~isLeftOfCurrent /\ made.kind = "INTERVAL" /\ mayRight)
           /\ ~contains =>
                /\ ~pushedM
                /\ pushedL <=> (made.hasLeft /\ mayLeft)
                /\ pushedR <=> (made.hasRight /\ mayRight)
           /\ \A e \in DOMAIN events' \ DOMAIN events :
                /\ events'[e].parent = Len(nodes')
                /\ events'[e].kind = "LEFT_CHILD" <=> e = made.pendL
                /\ events'[e].kind = "RIGHT_CHILD" <=> e = made.pendR
                /\ events'[e].kind = "PSEUDO_SOURCE" <=> e = made.pendM]_vars

\* C28, its case: a cone that contains its target vertex found an earlier
\* cone as the occupier of its entry halfedge at no greater distance, which
\* still is the occupier, and pushed a LEFT_CHILD event and nothing else; and
\* a cone that does not contain its target vertex has a left side and pushed
\* no event, being at the level limit or having its left child edge on the
\* null face.
LostConePushedLeftOnly ==
  /\ \E n \in DOMAIN nodes :
       /\ nodes[n].kind \in SourceKinds \/ (nodes[n].hasLeft /\ nodes[n].hasRight)
       /\ occ[nodes[n].entry].node # NULL
       /\ occ[nodes[n].entry].node < n
       /\ occ[nodes[n].entry].dist <= nodes[n].dTgt
       /\ \E e \in DOMAIN events : events[e].parent = n /\ events[e].kind = "LEFT_CHILD"
       /\ \A e \in DOMAIN events : events[e].parent = n => events[e].kind = "LEFT_CHILD"
  /\ \E m \in DOMAIN nodes :
       /\ nodes[m].kind = "INTERVAL"
       /\ nodes[m].hasLeft /\ ~nodes[m].hasRight
       /\ nodes[m].level >= numFaces \/ FaceOf(LeftChildEdge(nodes[m])) = NullFace
       /\ \A e \in DOMAIN events : events[e].parent # m

\* C29: when a LEFT_CHILD or RIGHT_CHILD event that is not cancelled is
\* popped, the parent's pending slot of that side is cleared; the window is
\* kept exactly when none of the three comparisons of the distance filter that
\* apply says farther, where the first comparison applies only if the closest
\* node of v1 is not null (v1 the source of the entry edge for a left child,
\* its target for a right child), the second only if that of the target
\* vertex is not null, the third only if that of v3 (the other end of the
\* entry edge) is not null; a kept window makes one INTERVAL child across the
\* child edge of that side with the parent's distance_from_source_to_root,
\* and a pruned one makes none; the pop itself pushes no event and changes no
\* occupier and no closest entry.  The filter is compared with this rule
\* after every step for every event that waits in the queue, the pop for the
\* event it takes.
ChildEventFilteredThenExpanded ==
  [][LET right(evs, ev) == evs[ev].kind = "RIGHT_CHILD"
         entry(ns, evs, ev) == ns[evs[ev].parent].entry
         v1(ns, evs, ev) == IF right(evs, ev) THEN Target(entry(ns, evs, ev))
                                              ELSE Source(entry(ns, evs, ev))
         v2(ns, evs, ev) == Target(NextHalfedge(entry(ns, evs, ev)))
         v3(ns, evs, ev) == IF right(evs, ev) THEN Source(entry(ns, evs, ev))
                                              ELSE Target(entry(ns, evs, ev))
         kept(cl, ns, evs, ev, g1, g2, g3) ==
           /\ cl[v1(ns, evs, ev)].node # NULL => ~g1
           /\ cl[v2(ns, evs, ev)].node # NULL => ~g2
           /\ cl[v3(ns, evs, ev)].node # NULL => ~g3
         waiting(evs, ev) == evs[ev].kind \in {"LEFT_CHILD", "RIGHT_CHILD"} /\ ~evs[ev].cancelled
     IN  /\ \A ev \in queue' :
              waiting(events', ev) =>
                \A g1 \in BOOLEAN, g2 \in BOOLEAN, g3 \in BOOLEAN :
                  WindowDistanceFilter(Engine', nodes'[events'[ev].parent],
                                       right(events', ev), g1, g2, g3)
                    = kept(closest', nodes', events', ev, g1, g2, g3)
         /\ (pc = "loop" /\ work = <<>> /\ queue' # queue /\ queue' \subseteq queue) =>
              LET popped == CHOOSE e \in queue \ queue' : TRUE
                  p      == events[popped].parent
                  toRight == right(events, popped)
                  pend   == IF toRight THEN "pendR" ELSE "pendL"
                  child  == [parent |-> p,
                             slot   |-> IF toRight THEN "right" ELSE "left",
                             entry  |-> IF toRight
                                        THEN Opposite(NextHalfedge(NextHalfedge(nodes[p].entry)))
                                        ELSE Opposite(NextHalfedge(nodes[p].entry)),
                             kind   |-> "INTERVAL",
                             dSrc   |-> nodes[p].dSrc]
              IN  waiting(events, popped) =>
                    /\ nodes[p][pend] = popped
                    /\ nodes' = [nodes EXCEPT ![p][pend] = NULL]
                    /\ \E g1 \in BOOLEAN, g2 \in BOOLEAN, g3 \in BOOLEAN :
                         work' = IF kept(closest, nodes, events, popped, g1, g2, g3)
                                 THEN <<child>> ELSE <<>>
                    /\ (\A v \in {v1(nodes, events, popped), v2(nodes, events, popped),
                                  v3(nodes, events, popped)} : closest[v].node = NULL)
                         => work' = <<child>>
                    /\ occ' = occ
                    /\ closest' = closest
                    /\ DOMAIN events' = DOMAIN events
                    /\ queue' = queue \ {popped}]_vars

\* C29, its case: a RIGHT_CHILD event was popped when not cancelled and its
\* window was pruned, no cone having ever been made across that edge for its
\* parent; and a LEFT_CHILD event was popped and its INTERVAL child made.
PrunedAndKeptWindows ==
  /\ work = <<>>
  /\ \E e \in DOMAIN events :
       LET p == events[e].parent
       IN  /\ events[e].kind = "RIGHT_CHILD"
           /\ events[e].dispatched
           /\ p \in Alive
           /\ \A c \in DOMAIN nodes :
                ~(nodes[c].parent = p /\ nodes[c].entry = RightChildEdge(nodes[p]))
  /\ \E e \in DOMAIN events :
       LET p == events[e].parent
       IN  /\ events[e].kind = "LEFT_CHILD"
           /\ events[e].dispatched
           /\ nodes[p].left # NULL
           /\ nodes[nodes[p].left].kind = "INTERVAL"
           /\ nodes[nodes[p].left].dSrc = nodes[p].dSrc

\* C30: on a computed face list, for every answer of the kernel on which
\* windows contain the point and how far the point is from each source image,
\* nearest_on_face returns null when no window contains the point, and
\* otherwise a cone whose window contains it together with that cone's
\* distance, which is the least of d + |I - location| over the cones whose
\* windows contain the point: the candidates it skips lose nothing.
NearestOnFaceIsMinimum ==
  pc = "done" =>
    \A f \in Faces :
      LET list == faceOccupiers[f]
      IN  \A inside \in InsideChoices(list), off \in OffsetChoices(list) :
            LET r        == NearestOnFace(nodes, list, inside, off, 1, NoPair)
                total(i) == nodes[list[i]].dSrc + off[i]
            IN  IF inside = {}
                THEN r.node = NULL
                ELSE /\ \E i \in inside : r.node = list[i] /\ r.dist = total(i)
                     /\ \A i \in inside : r.dist <= total(i)

\* C30, its case: the call has returned and a face list holds a cone with a
\* greater distance_from_source_to_root after one with a smaller, so that
\* with both windows containing the point and the first source image far
\* from it the later cone is the nearer one, and shortest_distance_to_location
\* has returned the later cone's distance for that face.
LaterConeIsNearer ==
  /\ pc = "done"
  /\ \E f \in Faces :
       LET list == faceOccupiers[f]
       IN  \E i \in DOMAIN list, j \in DOMAIN list :
             /\ i < j
             /\ nodes[list[i]].dSrc < nodes[list[j]].dSrc
             /\ nodes[list[j]].dSrc < nodes[list[i]].dSrc + MaxDelta
             /\ DOMAIN list \in InsideChoices(list)
             /\ [k \in DOMAIN list |-> IF k = j THEN 0 ELSE MaxDelta] \in OffsetChoices(list)
             /\ query.op = "shortest_distance_to_location"
             /\ query.face = f
             /\ query.found
             /\ query.value = nodes[list[j]].dSrc

EdgeRootParameters(b, index) == <<b[index + 1], b[((index + 1) % Len(b)) + 1]>>

\* The weight a location gives to the corner of its face that is not on the
\* halfedge reached by index steps from halfedge(face).
WeightOffHalfedge(b, index) == b[((index + 2) % Len(b)) + 1]

\* C32: for every location that expand_root took as lying on an edge, the
\* halfedge handed to expand_edge_root carries the source (the third corner of
\* the face has weight zero), and the parameters t0 and t1 are both nonzero
\* and add up to one.
EdgeRootOnSourceEdge ==
  \A k \in DOMAIN faceLocations :
    LET sd == faceLocations[k]
        c  == ClassifyBarycentric(sd.bary)
    IN  (ExpandRootBranch(c.type) = "EDGE") =>
          \A t \in {EdgeRootParameters(sd.bary, c.index)} :
            /\ WeightOffHalfedge(sd.bary, c.index) = 0
            /\ t[1] # 0
            /\ t[2] # 0
            /\ t[1] + t[2] = BaryOne

\* The source image expand_edge_root lays on the side of the halfedge edge:
\* layoutFace[0] * t0 + layoutFace[1] * t1, where triangle_from_halfedge puts
\* source(edge) at corner 0 and target(edge) at corner 1.  The image is given
\* as the mesh point it stands for: the weight of each end of the edge.
EdgeSourceImage(edge, t) ==
  [v \in {Source(edge), Target(edge)} |-> IF v = Source(edge) THEN t[1] ELSE t[2]]

\* C33: the source images an edge root lays on the side of its halfedge and on
\* the side of the opposite halfedge are images of the same mesh point: each
\* end of the common edge has the same weight on both sides.
EdgeRootImagesAgree ==
  \A k \in DOMAIN faceLocations :
    LET sd == faceLocations[k]
        c  == ClassifyBarycentric(sd.bary)
    IN  (ExpandRootBranch(c.type) = "EDGE") =>
          \A h \in {WalkFace(sd.face, c.index)}, t \in {EdgeRootParameters(sd.bary, c.index)} :
            EdgeSourceImage(h, t) = EdgeSourceImage(Opposite(h), t)

\* ------------------------------------------------------ fans and closest nodes

\* A node owns a fan: it has middle children or a pending PSEUDO_SOURCE event.
\* The middle children of a face root or an edge root are not a fan.
OwnsFan(ns, n) ==
  /\ ns[n].entry # NoEdge
  /\ (ns[n].middle # <<>> \/ ns[n].pendM # NULL)

ClosestIsLiveOccupier ==
  \A v \in DOMAIN closest :
    \A n \in {closest[v].node} :
      (n # NULL /\ ~IsRootNode(nodes[n])) =>
        /\ occ[nodes[n].entry].node = n
        /\ TargetVertex(nodes[n]) = v
        /\ n \in Alive

\* C35, its case: delete_node has cleared the closest entry of a vertex (the
\* node is null, the distance of the deleted node is still there) while a
\* cone that is not a root is the closest node of another vertex.
ClosestClearedByDelete ==
  /\ pc = "loop"
  /\ \E v \in DOMAIN closest : closest[v].node = NULL /\ closest[v].dist > 0
  /\ \E u \in DOMAIN closest :
       closest[u].node # NULL /\ ~IsRootNode(nodes[closest[u].node])

\* ------------------------------------------------- evictions and the new node

\* Node n hangs on the tree: it is a root, or it is held in a child slot of
\* its parent and the parent hangs on the tree.
RECURSIVE HangsOnTree(_, _)
HangsOnTree(ns, n) ==
  \/ IsRootNode(ns[n])
  \/ /\ ns[n].parent # NULL
     /\ n \in ChildrenOf(ns, ns[n].parent)
     /\ HangsOnTree(ns, ns[n].parent)

ClosestDistanceNeverIncreases ==
  [][(pc \in {"seeds", "loop"}) =>
       \A v \in DOMAIN closest :
         (closest[v].node # NULL \/ closest[v].dist > 0) =>
           closest'[v].dist <= closest[v].dist]_vars

\* ------------------------------------------------------------- at the return

\* C38: when compute_shortest_paths has returned, the event queue is empty
\* and no node attached to the tree has a pending left, right or middle event.
NothingPendingAtReturn ==
  (pc = "done") =>
    /\ queue = {}
    /\ \A n \in Alive :
         nodes[n].pendL = NULL /\ nodes[n].pendR = NULL /\ nodes[n].pendM = NULL

\* C38, its case: the call has returned after the loop popped a cancelled
\* event and expanded another one into a child that is still in the tree.
ReturnedAfterPopsAndCancels ==
  /\ pc = "done"
  /\ \E e \in DOMAIN events : events[e].cancelled /\ events[e].popped = 1
  /\ \E e \in DOMAIN events :
       /\ events[e].dispatched
       /\ events[e].kind = "LEFT_CHILD"
       /\ nodes[events[e].parent].left # NULL
       /\ events[e].parent \in Alive

\* ------------------------------------------------------ one child per side

\* The nodes ever created as the child of node p on the given side.
ChildrenEverOn(ns, p, side) ==
  {m \in DOMAIN ns :
     /\ ns[m].parent = p
     /\ ns[m].kind = "INTERVAL"
     /\ ns[m].entry = (IF side = "left" THEN LeftChildEdge(ns[p]) ELSE RightChildEdge(ns[p]))}

\* C39: after every step no node has both a child and a pending event on its
\* left side, nor on its right side; and a step that attaches a left or right
\* child finds that side of the parent without a child and without any child
\* created there before.
OneChildPerSide ==
  [][/\ \A n \in DOMAIN nodes' :
          /\ ~(nodes'[n].left # NULL /\ nodes'[n].pendL # NULL)
          /\ ~(nodes'[n].right # NULL /\ nodes'[n].pendR # NULL)
     /\ (work # <<>> /\ Len(nodes') = Len(nodes) + 1 /\ Head(work).slot # "middle") =>
          \A w \in {Head(work)} :
            /\ nodes[w.parent][w.slot] = NULL
            /\ ChildrenEverOn(nodes, w.parent, w.slot) = {}
            /\ ChildrenEverOn(nodes', w.parent, w.slot) = {Len(nodes')}]_vars

\* C39, its case: a cone in the tree has a left child and no pending left
\* event, and another cone in the tree has lost the left child it once had
\* and has no pending left event.
LostChildNotReplaced ==
  /\ \E p \in Alive : nodes[p].left # NULL /\ nodes[p].pendL = NULL
  /\ \E q \in Alive :
       /\ ~IsRootNode(nodes[q])
       /\ nodes[q].left = NULL
       /\ nodes[q].pendL = NULL
       /\ ChildrenEverOn(nodes, q, "left") # {}

\* ------------------------------------------------- the writes of the set-up

\* The sizes of the three tables when reset_containers is over:
\* m_vertexOccupiers.resize(num_halfedges), m_closestToVertices.resize(num_vertices),
\* m_vertexIsPseudoSource.resize(num_vertices).
TableSizesAfterReset ==
  [occupiers |-> Cardinality(Halfedges),
   closest   |-> Cardinality(Vertices),
   pseudo    |-> Cardinality(Vertices)]

\* m_vertexOccupiers.clear() in set_vertex_types: the size of the table after it.
SizeAfterClear(size) == 0

\* The indexed writes of set_vertex_types, each with the size its table has
\* when the write is made: one write to the pseudo-source table and one to
\* the closest table per vertex, then, after the clear, one write to the
\* occupier table per halfedge index.
SetVertexTypesWrites(sizes) ==
  {[table |-> "pseudo", index |-> i, size |-> sizes.pseudo] :
     i \in 0..(Cardinality(Vertices) - 1)}
  \cup {[table |-> "closest", index |-> i, size |-> sizes.closest] :
          i \in 0..(Cardinality(Vertices) - 1)}
  \cup {[table |-> "occupiers", index |-> i, size |-> SizeAfterClear(sizes.occupiers)] :
          i \in 0..(Cardinality(Halfedges) - 1)}

\* C40: once the set-up of a call has run, every indexed write it made to the
\* occupier, closest and pseudo-source tables used an index smaller than the
\* size the table had at that write.
SetUpWritesInBounds ==
  (pc \in {"seeds", "aborted"}) =>
    \A w \in SetVertexTypesWrites(TableSizesAfterReset) : w.index < w.size

====
